---- MODULE Spec2Model ----
(***************************************************************************)
(* State-machine model of the query client of src/src/query.js             *)
(* (createQuery): the entry store, the retry-wrapped fetch, mutation,      *)
(* invalidation and the debounced persistence timer.                       *)
(*                                                                         *)
(* Time is counted in abstract ticks.  JavaScript's undefined and null are *)
(* kept apart: for data they are the strings "undefined" and "null", for   *)
(* timestamps undefined is UndefT, for the promise and error fields null   *)
(* is 0 and undefined is -1.  A promise is named by the index of its fetch *)
(* in fetches.                                                             *)
(***************************************************************************)
EXTENDS Integers, Sequences, FiniteSets, TLC

\* ------------------------------------------------------------------ bounds
MaxTime == 2
MaxFetches == 1
MaxRetries == 2
RetryMaxTime == 3
MaxTimers == 2
MaxListeners == 1
PollMaxTime == 3
TableMaxTime == 1
StoreMaxTime == 3
PersistMaxTime == 2

\* handlers one event name holds at a time
MaxHandlers == 3
\* once() wrappers of one callback registered at a time
MaxOnce == 1
\* pub calls the stack holds nested in one another
MaxDepth == 2
\* invocations counted per once() wrapper
MaxCalls == 2
\* the calls of one burst the model counts
MaxBurst == 2

\* ------------------------------------------------------------- input sets
Keys == {"a", "ab"}

\* the key the single-key specifications work on
OneKey == {"a"}
Values == {"v1", "v2"}
\* the empty string, a value JavaScript takes for false
Empty == ""
Null == "null"
Undef == "undefined"
UndefT == -1
NullP == 0
UndefP == -1
NullE == 0
UndefE == -1

Ttls == {2}
StaleTimes == {1, 3}
RetryDelays == {1, 2}

\* the delay of the debounced save, in ticks (setTimeout(saveToStorage, 1000))
PersistDelay == 1

VARIABLES
  now,            \* Date.now()
  cache,          \* the Map cache: key -> entry (has = FALSE: no entry)
  order,          \* the keys of cache in the Map's iteration (insertion) order
  fetches,        \* the retry-wrapped fetches, by promise id (phase "free":
                  \* the id names no unsettled fetch)
  done,           \* the fetch that settled in the last step, if one did
  persistTimeout, \* due time of the pending save timer, UndefT when none
  op,             \* the last step: the client call or callback and its key
  ret,            \* what the last client call returned
  emitted,        \* the notifications the last step emitted, in order
  updaterCalled,  \* whether the last step called a mutate updater
  lastWrite,      \* per key, the data last written by a success, mutate or set
  lastCall,       \* per key, the setQueryData or removal whose effect no later
                  \* client call for the key has replaced
  timers,         \* the active setInterval timers of startPolling
  pollingIntervals, \* the Map pollingIntervals: key -> timer id (0: no entry)
  listeners,      \* per key, the handlers subscribed to query:<key>:success
  storage,        \* the blob in localStorage under persistKey
  persistedKeys,  \* the createQuery option persistedKeys
  live,           \* whether the page that owns the client is loaded
  evt,            \* an EVT object: the handlers of one event name and what
                  \* its last pub did
  rx,             \* the reactive module: two signals, the effects subscribed
                  \* to them, _batching, _pending, and the effect runs of the
                  \* last step
  ui,             \* a querySignal (its cells and its listeners) and a
                  \* bindQuery (its element and its render calls)
  burst           \* the calls that scheduled a save since the last storage
                  \* write: how many, when the last one was made, and how
                  \* many the last write covered

vars == <<now, cache, order, fetches, done, persistTimeout, op, ret, emitted,
          updaterCalled, lastWrite, lastCall, timers, pollingIntervals,
          listeners, storage, persistedKeys, live, evt, rx, ui, burst>>

\* the state of the poll table
pollVars == <<timers, pollingIntervals>>

\* the event bus, the storage and the persistence option
envVars == <<listeners, storage, persistedKeys, live>>

\* a step of the store leaves alone the objects beside it: an event bus of
\* its own, signals and effects, and the bindings of the store to signals
\* and to the page; the calls that schedule a save are counted only where
\* the debounce is examined
Aside == UNCHANGED <<evt, rx, ui, burst>>

\* ---------------------------------------------------------------- helpers
RECURSIVE Pow2(_)
Pow2(n) == IF n <= 0 THEN 1 ELSE 2 * Pow2(n - 1)

\* JavaScript's a < b on a number and a possibly undefined timestamp
Lt(a, b) == a # UndefT /\ b # UndefT /\ a < b

\* x ?? d for a data value
OrNull(x) == IF x = Undef THEN Null ELSE x

\* x ?? 0 for a timestamp
OrZero(t) == IF t = UndefT THEN 0 ELSE t

NoEntry ==
  [has |-> FALSE, data |-> Undef, staleAt |-> UndefT, expiry |-> UndefT,
   promise |-> UndefP, error |-> UndefE]

getEntry(key) == cache[key]

\* one emit(event, key, payload): the global and the per-key publication
\* (a payload field an event does not carry keeps its value of BlankEv)
BlankEv ==
  [ev |-> "", key |-> "", data |-> Undef, previous |-> Undef, isStale |-> FALSE,
   hasCache |-> FALSE, attempt |-> 0, maxRetries |-> 0, delay |-> 0,
   error |-> NullE, keys |-> <<>>, interval |-> 0]

Ev(event, key) == [BlankEv EXCEPT !.ev = event, !.key = key]

HitEv(key, data) == [Ev("hit", key) EXCEPT !.data = data]

FetchEv(key, isStale, hasCache) ==
  [Ev("fetch", key) EXCEPT !.isStale = isStale, !.hasCache = hasCache]

SuccessEv(key, data) == [Ev("success", key) EXCEPT !.data = data]

\* emit("error", key, { error, staleData }): staleData is kept in data
ErrorEv(key, error, staleData) ==
  [Ev("error", key) EXCEPT !.error = error, !.data = staleData]

RetryEv(key, attempt, maxRetries, delay, error) ==
  [Ev("retry", key) EXCEPT !.attempt = attempt, !.maxRetries = maxRetries,
                           !.delay = delay, !.error = error]

MutateEv(key, data, previous) ==
  [Ev("mutate", key) EXCEPT !.data = data, !.previous = previous]

SetEv(key, data) == [Ev("set", key) EXCEPT !.data = data]

Op(name, key) == [name |-> name, key |-> key, arg |-> {}]

\* a step whose call took a set of keys as its argument
OpArg(name, key, arg) == [Op(name, key) EXCEPT !.arg = arg]

NoRet == [kind |-> "none", val |-> Undef, pid |-> NullP, keys |-> <<>>]

RetValue(v) == [NoRet EXCEPT !.kind = "value", !.val = v]

RetPromise(p) == [NoRet EXCEPT !.kind = "promise", !.pid = p]

\* the call ends with an exception thrown to its caller
RetThrow == [NoRet EXCEPT !.kind = "throw"]

\* an array of keys returned to the caller
RetKeys(ks) == [NoRet EXCEPT !.kind = "keys", !.keys = ks]

\* JavaScript's a > b on a number and a possibly undefined timestamp
Gt(a, b) == a # UndefT /\ b # UndefT /\ a > b

\* EVT.pub("query:gc", { collected })
GcEv(collected) == [Ev("gc", "") EXCEPT !.keys = collected]

\* EVT.pub("query:hydrated", { keys })
HydratedEv(keys) == [Ev("hydrated", "") EXCEPT !.keys = keys]

\* emit("sync", key, { data })
SyncEv(key, data) == [Ev("sync", key) EXCEPT !.data = data]

\* schedulePersist without the clearTimeout: a pending timer is left to fire
schedulePersist_NoRestart == IF persistTimeout # UndefT THEN persistTimeout ELSE now + PersistDelay

\* the due time of the timer schedulePersist() sets, after clearing the
\* pending one
schedulePersist == now + PersistDelay

\* how a promise or a value handed to a caller has settled
Settled(state, val, err) == [state |-> state, val |-> val, err |-> err]

\* the settlement of what a query call returned, r, given its fetch f
Resolution(r, f) ==
  IF r.kind = "value" THEN Settled("resolved", r.val, NullE)
  ELSE IF f.phase = "resolved" THEN Settled("resolved", f.value, NullE)
  ELSE IF f.phase = "rejected" THEN Settled("rejected", Undef, f.error)
  ELSE Settled("pending", Undef, NullE)

\* lastWrite of a key nothing has written since it last lost its entry
NoWrite == "none"

\* the elements of a sequence
Range(seq) == {seq[i] : i \in DOMAIN seq}

\* cache.set(key, ...) on the iteration order: a new key goes last, a key
\* already present keeps its place
Inserted(ord, key) == IF key \in Range(ord) THEN ord ELSE Append(ord, key)

\* cache.delete(key) on the iteration order
Deleted(ord, key) == SelectSeq(ord, LAMBDA k : k # key)

\* lastCall of a key: nothing to remember, a setQueryData(key, data) whose
\* entry is fresh until `until`, or a removal of the key's entry
NoCall == [name |-> "none", by |-> "", data |-> Undef, until |-> 0]

SetCall(data, until) ==
  [name |-> "set", by |-> "setQueryData", data |-> data, until |-> until]

RemovedCall(by) == [name |-> "removed", by |-> by, data |-> Undef, until |-> 0]

\* no timer id in pollingIntervals
NoTimer == 0

\* localStorage.getItem(persistKey) === null
NoBlob == [present |-> FALSE, wellFormed |-> TRUE, entries |-> <<>>]

\* text under persistKey that JSON.parse rejects
Garbage == [present |-> TRUE, wellFormed |-> FALSE, entries |-> <<>>]

\* persistedKeys = null
NoAllowList == [given |-> FALSE, prefixes |-> {}]

\* ------------------------------------------------------- construction options
\* createQuery's defaults, in ticks of 1000 ms
defaultTtl == 60
defaultStaleTime == 5
defaultRetries == 3
defaultRetryDelay == 1

\* -------------------------------------------------------------- fetchWithRetry
\* RetryDelayFor without the doubling
RetryDelayFor_NoBackoff(retryDelay, attempt) == retryDelay

\* the back-off before the retry that follows the failed attempt
RetryDelayFor(retryDelay, attempt) == retryDelay * Pow2(attempt)

\* ShouldRetry that also backs off after the last attempt
ShouldRetry_Always(attempt, retries) == attempt <= retries

\* whether a failed attempt is followed by another one
ShouldRetry(attempt, retries) == attempt < retries

\* the loop test of fetchWithRetry
LoopContinues(attempt, retries) == attempt <= retries

InFlight(f) == f.phase \in {"fetching", "sleeping"}

\* the error the n-th fetcher invocation of a fetch rejects with
ErrorOf(n) == n

\* what the handlers of query read of the entry it captured
Snapshot(entry) ==
  [has |-> entry.has, data |-> entry.data, staleAt |-> entry.staleAt,
   expiry |-> entry.expiry]

\* a promise id that names no unsettled fetch
NoFetch ==
  [key |-> "", snap |-> Snapshot(NoEntry), ttl |-> 0, staleTime |-> 0,
   retries |-> 0, retryDelay |-> 0,
   attempt |-> 0, phase |-> "free", wakeAt |-> UndefT,
   calls |-> 0, fails |-> 0, delays |-> <<>>, retryNotes |-> 0,
   lastError |-> UndefE, value |-> Undef, error |-> NullE,
   pid |-> NullP, isStale |-> FALSE, served |-> NoRet, attached |-> FALSE]

Pids == DOMAIN fetches

FreePidsOf(fs) == {p \in DOMAIN fs : fs[p].phase = "free"}

FreePids == FreePidsOf(fetches)

\* the id of the promise the next fetch creates
NewPidOf(fs) == CHOOSE p \in FreePidsOf(fs) : \A q \in FreePidsOf(fs) : p <= q

\* a fetch at the moment query has started it: the first attempt is under way
NewFetch(pid, key, entry, isStale, ttl, staleTime, retries, retryDelay, served) ==
  [key |-> key, snap |-> Snapshot(entry), ttl |-> ttl, staleTime |-> staleTime,
   retries |-> retries, retryDelay |-> retryDelay,
   attempt |-> 0, phase |-> "fetching", wakeAt |-> UndefT,
   calls |-> 1, fails |-> 0, delays |-> <<>>, retryNotes |-> 0,
   lastError |-> UndefE, value |-> Undef, error |-> NullE,
   pid |-> pid, isStale |-> isStale, served |-> served, attached |-> FALSE]

\* ----------------------------------------------------------------------- query
\* IsFresh with the comparison reversed
IsFresh_Reversed(entry) == entry.has /\ Lt(entry.staleAt, now)

IsFresh(entry) == entry.has /\ Lt(now, entry.staleAt)

HasPromise(entry) == entry.has /\ entry.promise >= 1

\* IsStale testing staleAt instead of expiry
IsStale_ByStaleAt(entry) == entry.has /\ Lt(now, entry.staleAt)

IsStale(entry) == entry.has /\ Lt(now, entry.expiry)

\* cache.set(key, { ...entry, promise })
StartEntry(entry, pid) == [entry EXCEPT !.has = TRUE, !.promise = pid]

\* AttachReturn handing out the cached data instead of the promise
AttachReturn_Data(entry) == RetValue(entry.data)

\* if (entry?.promise) return entry.promise
AttachReturn(entry) == RetPromise(entry.promise)

\* QueryReturn without the stale-data return
QueryReturn_AlwaysPromise(isStale, entry, pid) == RetPromise(pid)

\* if (isStale) return entry.data; return promise
QueryReturn(isStale, entry, pid) ==
  IF isStale THEN RetValue(entry.data) ELSE RetPromise(pid)

\* SuccessEntry that is stale as soon as it is written
SuccessEntry_Stale(data, staleTime, ttl) ==
  [has |-> TRUE, data |-> data, staleAt |-> now, expiry |-> now + ttl,
   promise |-> NullP, error |-> NullE]

\* the entry written by the .then handler
SuccessEntry(data, staleTime, ttl) ==
  [has |-> TRUE, data |-> data, staleAt |-> now + staleTime, expiry |-> now + ttl,
   promise |-> NullP, error |-> NullE]

\* FailureEntry that drops what the previous entry held
FailureEntry_Blank(snap, error) ==
  [has |-> TRUE, data |-> Null, staleAt |-> 0, expiry |-> 0, promise |-> NullP,
   error |-> error]

\* the entry written by the .catch handler, from the entry query captured
FailureEntry(snap, error) ==
  [has |-> TRUE, data |-> OrNull(snap.data), staleAt |-> OrZero(snap.staleAt),
   expiry |-> OrZero(snap.expiry), promise |-> NullP, error |-> error]

\* query(key, fetcher, options) as a function of the store c with iteration
\* order ord and the fetches fs: the store, order and fetches it leaves, what
\* it returns and what it emits (ok: a promise id is left for a new fetch)
QueryStep(c, ord, fs, key, ttl, staleTime, retries, retryDelay) ==
  LET entry == c[key]
      same == [ok |-> TRUE, cache |-> c, order |-> ord, fetches |-> fs,
               ret |-> NoRet, evs |-> <<>>]
  IN
  IF IsFresh(entry) THEN
    [same EXCEPT !.ret = RetValue(entry.data),
                 !.evs = <<HitEv(key, entry.data)>>]
  ELSE IF HasPromise(entry) THEN
    [same EXCEPT !.ret = AttachReturn(entry),
                 !.fetches = [fs EXCEPT ![entry.promise].attached = TRUE]]
  ELSE IF FreePidsOf(fs) = {} THEN
    [same EXCEPT !.ok = FALSE]
  ELSE
    LET isStale == IsStale(entry)
        pid == NewPidOf(fs)
        served == QueryReturn(isStale, entry, pid)
    IN
    [ok |-> TRUE,
     cache |-> [c EXCEPT ![key] = StartEntry(entry, pid)],
     order |-> Inserted(ord, key),
     fetches |-> [fs EXCEPT ![pid] =
                    NewFetch(pid, key, entry, isStale, ttl, staleTime, retries,
                             retryDelay, served)],
     ret |-> served,
     evs |-> <<FetchEv(key, isStale, entry.has)>>]

\* query run on the store c with order ord, after the notifications evs
QueryOn(c, ord, evs, key, ttl, staleTime, retries, retryDelay) ==
  LET q == QueryStep(c, ord, fetches, key, ttl, staleTime, retries, retryDelay)
  IN
  /\ q.ok
  /\ emitted' = evs \o q.evs
  /\ ret' = q.ret
  /\ cache' = q.cache
  /\ order' = q.order
  /\ fetches' = q.fetches

\* a later query consumes the removal lastCall remembers
AfterQuery(key) ==
  [lastCall EXCEPT ![key] = IF @.name = "removed" THEN NoCall ELSE @]

Query(key, ttl, staleTime, retries, retryDelay) ==
  /\ QueryOn(cache, order, <<>>, key, ttl, staleTime, retries, retryDelay)
  /\ op' = Op("query", key)
  /\ updaterCalled' = FALSE
  /\ done' = NoFetch
  /\ lastCall' = AfterQuery(key)
  /\ UNCHANGED <<now, persistTimeout, lastWrite, pollVars, envVars>>

\* the fetcher's promise of fetch p resolves with v: fetchWithRetry returns it
\* and the .then handler of query runs
FetcherResolve(p, v) ==
  LET f == fetches[p] IN
  /\ f.phase = "fetching"
  /\ op' = Op("resolve", f.key)
  /\ fetches' = [fetches EXCEPT ![p] = NoFetch]
  /\ done' = [f EXCEPT !.phase = "resolved", !.value = v]
  /\ cache' = [cache EXCEPT ![f.key] = SuccessEntry(v, f.staleTime, f.ttl)]
  /\ order' = Inserted(order, f.key)
  /\ emitted' = <<SuccessEv(f.key, v)>>
  /\ persistTimeout' = schedulePersist
  /\ lastWrite' = [lastWrite EXCEPT ![f.key] = v]
  /\ ret' = NoRet
  /\ updaterCalled' = FALSE
  /\ UNCHANGED <<now, lastCall, pollVars, envVars>>

\* GiveUp whose .catch handler leaves the entry as it is
GiveUp_KeepEntry(p, f, err) ==
  /\ fetches' = [fetches EXCEPT ![p] = NoFetch]
  /\ done' = [f EXCEPT !.phase = "rejected", !.error = err]
  /\ UNCHANGED <<cache, order>>
  /\ emitted' = <<ErrorEv(f.key, err, OrNull(f.snap.data))>>

\* the rest of fetchWithRetry's loop and query's .catch handler, for a fetch
\* whose loop has given up with error err
GiveUp(p, f, err) ==
  /\ fetches' = [fetches EXCEPT ![p] = NoFetch]
  /\ done' = [f EXCEPT !.phase = "rejected", !.error = err]
  /\ cache' = [cache EXCEPT ![f.key] = FailureEntry(f.snap, err)]
  /\ order' = Inserted(order, f.key)
  /\ emitted' = <<ErrorEv(f.key, err, OrNull(f.snap.data))>>

\* the fetcher's promise of fetch p rejects: the catch block of fetchWithRetry
FetcherReject(p) ==
  LET f == fetches[p]
      err == ErrorOf(f.calls)
      g == [f EXCEPT !.lastError = err, !.fails = @ + 1]
  IN
  /\ f.phase = "fetching"
  /\ op' = Op("reject", f.key)
  /\ IF ShouldRetry(f.attempt, f.retries) THEN
       LET delay == RetryDelayFor(f.retryDelay, f.attempt) IN
       /\ fetches' = [fetches EXCEPT ![p] =
                        [g EXCEPT !.phase = "sleeping", !.wakeAt = now + delay,
                                  !.delays = Append(@, delay),
                                  !.retryNotes = @ + 1]]
       /\ emitted' = <<RetryEv(f.key, f.attempt + 1, f.retries, delay, err)>>
       /\ UNCHANGED <<cache, order>>
       /\ done' = NoFetch
     ELSE
       \* attempt++ ends the loop: throw lastError
       GiveUp(p, g, g.lastError)
  /\ ret' = NoRet
  /\ updaterCalled' = FALSE
  /\ UNCHANGED <<now, persistTimeout, lastWrite, lastCall, pollVars, envVars>>

\* the back-off timer of fetch p fires: attempt++ and the next loop iteration
RetryWake(p) ==
  LET f == fetches[p]
      g == [f EXCEPT !.attempt = @ + 1]
  IN
  /\ f.phase = "sleeping"
  /\ now >= f.wakeAt
  /\ op' = Op("wake", f.key)
  /\ IF LoopContinues(g.attempt, g.retries) THEN
       /\ fetches' = [fetches EXCEPT ![p] =
                        [g EXCEPT !.phase = "fetching", !.calls = @ + 1]]
       /\ emitted' = <<>>
       /\ UNCHANGED <<cache, order>>
       /\ done' = NoFetch
     ELSE
       GiveUp(p, g, g.lastError)
  /\ ret' = NoRet
  /\ updaterCalled' = FALSE
  /\ UNCHANGED <<now, persistTimeout, lastWrite, lastCall, pollVars, envVars>>

\* ------------------------------------------------------------------- mutations
\* the updaters the model passes to mutate: a plain value, or a function
Updaters ==
  [isFn : {FALSE}, val : Values] \cup [isFn : {TRUE}, val : {"swap"}]

\* typeof updater === "function" ? updater(previous) : updater
ApplyUpdater(u, previous) ==
  IF u.isFn THEN (IF previous = "v1" THEN "v2" ELSE "v1") ELSE u.val

\* MutateEntry that also drops the in-flight promise and the error
MutateEntry_Reset(entry, next) ==
  [entry EXCEPT !.data = next, !.promise = NullP, !.error = NullE]

\* cache.set(key, { ...entry, data: next })
MutateEntry(entry, next) == [entry EXCEPT !.data = next]

\* Mutate without the early return for a missing entry
Mutate_Upsert(key, u) ==
  LET entry == getEntry(key)
      previous == entry.data
      next == ApplyUpdater(u, previous)
  IN
  /\ op' = Op("mutate", key)
  /\ cache' = [cache EXCEPT ![key] = [MutateEntry(entry, next) EXCEPT !.has = TRUE]]
  /\ emitted' = <<MutateEv(key, next, previous)>>
  /\ persistTimeout' = schedulePersist
  /\ lastWrite' = [lastWrite EXCEPT ![key] = next]
  /\ ret' = RetValue(previous)
  /\ updaterCalled' = u.isFn
  /\ done' = NoFetch
  /\ order' = Inserted(order, key)
  /\ lastCall' = [lastCall EXCEPT ![key] = NoCall]
  /\ UNCHANGED <<now, fetches, pollVars, envVars>>

Mutate(key, u) ==
  LET entry == getEntry(key) IN
  /\ op' = Op("mutate", key)
  /\ IF ~entry.has THEN
       /\ ret' = RetValue(Null)
       /\ UNCHANGED <<cache, persistTimeout, lastWrite, lastCall>>
       /\ emitted' = <<>>
       /\ updaterCalled' = FALSE
     ELSE
       LET previous == entry.data
           next == ApplyUpdater(u, previous)
       IN
       /\ cache' = [cache EXCEPT ![key] = MutateEntry(entry, next)]
       /\ emitted' = <<MutateEv(key, next, previous)>>
       /\ persistTimeout' = schedulePersist
       /\ lastWrite' = [lastWrite EXCEPT ![key] = next]
       /\ lastCall' = [lastCall EXCEPT ![key] = NoCall]
       /\ ret' = RetValue(previous)
       /\ updaterCalled' = u.isFn
  /\ done' = NoFetch
  /\ UNCHANGED <<now, order, fetches, pollVars, envVars>>

\* the entry written by setQueryData
SetEntry(data, staleTime, ttl) ==
  [has |-> TRUE, data |-> data, staleAt |-> now + staleTime, expiry |-> now + ttl,
   promise |-> NullP, error |-> NullE]

SetQueryData(key, data, ttl, staleTime) ==
  /\ op' = Op("setQueryData", key)
  /\ cache' = [cache EXCEPT ![key] = SetEntry(data, staleTime, ttl)]
  /\ emitted' = <<SetEv(key, data)>>
  /\ persistTimeout' = schedulePersist
  /\ order' = Inserted(order, key)
  /\ lastWrite' = [lastWrite EXCEPT ![key] = data]
  /\ lastCall' = [lastCall EXCEPT ![key] = SetCall(data, now + staleTime)]
  /\ ret' = NoRet
  /\ updaterCalled' = FALSE
  /\ done' = NoFetch
  /\ UNCHANGED <<now, fetches, pollVars, envVars>>

\* ---------------------------------------------------------------- invalidation
\* invalidate(key, { refetch, fetcher }): refetch stands for refetch && fetcher
Invalidate(key, refetch) ==
  LET c == [cache EXCEPT ![key] = NoEntry]
      evs == <<Ev("invalidate", key)>>
  IN
  /\ op' = Op("invalidate", key)
  /\ persistTimeout' = schedulePersist
  /\ lastWrite' = [lastWrite EXCEPT ![key] = NoWrite]
  /\ IF refetch THEN
       /\ QueryOn(c, Deleted(order, key), evs, key, defaultTtl,
                  defaultStaleTime, defaultRetries, defaultRetryDelay)
       /\ lastCall' = [lastCall EXCEPT ![key] = NoCall]
     ELSE
       /\ cache' = c
       /\ order' = Deleted(order, key)
       /\ emitted' = evs
       /\ ret' = NoRet
       /\ fetches' = fetches
       /\ lastCall' = [lastCall EXCEPT ![key] = RemovedCall("invalidate")]
  /\ updaterCalled' = FALSE
  /\ done' = NoFetch
  /\ UNCHANGED <<now, pollVars, envVars>>

\* the predicates the model passes to invalidateMatching: membership in a
\* set of keys
Predicates == SUBSET Keys

\* InvalidateMatching deleting every entry
InvalidateMatching_All(pred) ==
  /\ op' = OpArg("invalidateMatching", "", pred)
  /\ cache' = [k \in Keys |-> NoEntry]
  /\ order' = <<>>
  /\ emitted' = [i \in 1..Len(order) |-> Ev("invalidate", order[i])]
  /\ persistTimeout' = schedulePersist
  /\ lastWrite' = [k \in Keys |-> NoWrite]
  /\ lastCall' = [k \in Keys |-> IF cache[k].has
                                     THEN RemovedCall("invalidateMatching")
                                     ELSE lastCall[k]]
  /\ ret' = RetKeys(order)
  /\ updaterCalled' = FALSE
  /\ done' = NoFetch
  /\ UNCHANGED <<now, fetches, pollVars, envVars>>

\* invalidateMatching(predicate): the loop over cache.keys()
InvalidateMatching(pred) ==
  LET invalidated == SelectSeq(order, LAMBDA k : k \in pred)
      hit == Range(invalidated)
  IN
  /\ op' = OpArg("invalidateMatching", "", pred)
  /\ cache' = [k \in Keys |-> IF k \in hit THEN NoEntry ELSE cache[k]]
  /\ order' = SelectSeq(order, LAMBDA k : k \notin hit)
  /\ emitted' = [i \in 1..Len(invalidated) |-> Ev("invalidate", invalidated[i])]
  /\ persistTimeout' = schedulePersist
  /\ lastWrite' = [k \in Keys |-> IF k \in hit THEN NoWrite ELSE lastWrite[k]]
  /\ lastCall' = [k \in Keys |-> IF k \in hit
                                     THEN RemovedCall("invalidateMatching")
                                     ELSE lastCall[k]]
  /\ ret' = RetKeys(invalidated)
  /\ updaterCalled' = FALSE
  /\ done' = NoFetch
  /\ UNCHANGED <<now, fetches, pollVars, envVars>>

\* --------------------------------------------------------------------- polling
Intervals == {1, 2}

\* the timer ids setInterval can hand out
TimerIds == 1..MaxTimers

FreeTimerIds(ts) == TimerIds \ {t.id : t \in ts}

\* the id the next setInterval returns
NewTimerId(ts) == CHOOSE i \in FreeTimerIds(ts) : \A j \in FreeTimerIds(ts) : i <= j

\* the timers of a key
TimersOf(key) == {t \in timers : t.key = key}

\* StopPollingStep that forgets the timer without clearing it
StopPollingStep_Leak(ts, pi, key) ==
  IF pi[key] # NoTimer THEN
    [timers |-> ts, pollingIntervals |-> [pi EXCEPT ![key] = NoTimer],
     evs |-> <<Ev("polling:stop", key)>>]
  ELSE
    [timers |-> ts, pollingIntervals |-> pi, evs |-> <<>>]

\* stopPolling(key) as a function of the timers ts and the poll table pi
StopPollingStep(ts, pi, key) ==
  IF pi[key] # NoTimer THEN
    [timers |-> {t \in ts : t.id # pi[key]},
     pollingIntervals |-> [pi EXCEPT ![key] = NoTimer],
     evs |-> <<Ev("polling:stop", key)>>]
  ELSE
    [timers |-> ts, pollingIntervals |-> pi, evs |-> <<>>]

\* stopPolling(key), also the function startPolling returns
StopPolling(key) ==
  LET s == StopPollingStep(timers, pollingIntervals, key) IN
  /\ op' = Op("stopPolling", key)
  /\ timers' = s.timers
  /\ pollingIntervals' = s.pollingIntervals
  /\ emitted' = s.evs
  /\ ret' = NoRet
  /\ updaterCalled' = FALSE
  /\ done' = NoFetch
  /\ UNCHANGED <<now, cache, order, fetches, persistTimeout, lastWrite,
                 lastCall, envVars>>

\* the keys of the poll table, in its iteration order (the model keeps at most
\* the keys of Keys, visited in a fixed order: the stops are independent)
PolledKeys == {k \in Keys : pollingIntervals[k] # NoTimer}

\* stopAllPolling() as a function of the timers and the poll table
RECURSIVE StopAllStep(_, _, _)
StopAllStep(ts, pi, keys) ==
  IF keys = {} THEN [timers |-> ts, pollingIntervals |-> pi, evs |-> <<>>]
  ELSE
    LET k == CHOOSE x \in keys : TRUE
        s == StopPollingStep(ts, pi, k)
        rest == StopAllStep(s.timers, s.pollingIntervals, keys \ {k})
    IN [rest EXCEPT !.evs = s.evs \o @]

StopAllPolling ==
  LET s == StopAllStep(timers, pollingIntervals, PolledKeys) IN
  /\ op' = Op("stopAllPolling", "")
  /\ timers' = s.timers
  /\ pollingIntervals' = s.pollingIntervals
  /\ emitted' = s.evs
  /\ ret' = NoRet
  /\ updaterCalled' = FALSE
  /\ done' = NoFetch
  /\ UNCHANGED <<now, cache, order, fetches, persistTimeout, lastWrite,
                 lastCall, envVars>>

\* the timer setInterval creates for a poll
NewTimer(id, key, interval, ttl, staleTime, retries, retryDelay) ==
  [id |-> id, key |-> key, interval |-> interval, start |-> now,
   nextAt |-> now + interval, ttl |-> ttl, staleTime |-> staleTime, retries |-> retries,
   retryDelay |-> retryDelay]

\* emit("polling:start", key, { interval })
PollStartEv(key, interval) == [Ev("polling:start", key) EXCEPT !.interval = interval]

\* startPolling(key, fetcher, interval, queryOptions) run on the store c with
\* order ord and fetches fs, after the notifications evs
StartPollingOn(c, ord, fs, evs, key, interval, ttl, staleTime, retries, retryDelay) ==
  LET s == StopPollingStep(timers, pollingIntervals, key)
      q == QueryStep(c, ord, fs, key, ttl, staleTime, retries, retryDelay)
      id == NewTimerId(s.timers)
  IN
  /\ q.ok
  /\ FreeTimerIds(s.timers) # {}
  /\ cache' = q.cache
  /\ order' = q.order
  /\ fetches' = q.fetches
  /\ timers' = s.timers \cup
                 {NewTimer(id, key, interval, ttl, staleTime, retries, retryDelay)}
  /\ pollingIntervals' = [s.pollingIntervals EXCEPT ![key] = id]
  /\ emitted' = evs \o s.evs \o q.evs \o <<PollStartEv(key, interval)>>

StartPolling(key, interval, ttl, staleTime, retries, retryDelay) ==
  /\ StartPollingOn(cache, order, fetches, <<>>, key, interval, ttl, staleTime,
                    retries, retryDelay)
  /\ op' = Op("startPolling", key)
  /\ ret' = NoRet
  /\ updaterCalled' = FALSE
  /\ done' = NoFetch
  /\ lastCall' = AfterQuery(key)
  /\ UNCHANGED <<now, persistTimeout, lastWrite, envVars>>

\* ForceStale that also drops the in-flight promise
ForceStale_Reset(c, key) ==
  IF c[key].has THEN [c EXCEPT ![key].staleAt = 0, ![key].promise = NullP] ELSE c

\* ForceStale leaving the entry as it is
ForceStale_Skip(c, key) == c

\* if (entry) cache.set(key, { ...entry, staleAt: 0 })
ForceStale(c, key) == IF c[key].has THEN [c EXCEPT ![key].staleAt = 0] ELSE c

\* the interval timer t fires: the callback of startPolling's setInterval
PollTick(t) ==
  LET q == QueryStep(ForceStale(cache, t.key), order, fetches, t.key, t.ttl,
                     t.staleTime, t.retries, t.retryDelay)
  IN
  /\ t \in timers
  /\ now >= t.nextAt
  /\ q.ok
  /\ op' = Op("pollTick", t.key)
  /\ cache' = q.cache
  /\ order' = q.order
  /\ fetches' = q.fetches
  /\ emitted' = q.evs
  /\ timers' = (timers \ {t}) \cup {[t EXCEPT !.nextAt = @ + t.interval]}
  /\ ret' = NoRet
  /\ updaterCalled' = FALSE
  /\ done' = NoFetch
  /\ lastCall' = AfterQuery(t.key)
  /\ UNCHANGED <<now, persistTimeout, lastWrite, pollingIntervals, envVars>>

\* bindQuery(key, fetcher, { poll, ...queryOptions }): its handler on the
\* success topic, the initial query, and the poll when poll is not 0
BindQuery(key, poll, ttl, staleTime, retries, retryDelay) ==
  LET q == QueryStep(cache, order, fetches, key, ttl, staleTime, retries,
                     retryDelay)
  IN
  /\ listeners[key] < MaxListeners
  /\ q.ok
  /\ op' = Op("bindQuery", key)
  /\ listeners' = [listeners EXCEPT ![key] = @ + 1]
  /\ IF poll # 0 THEN
       StartPollingOn(q.cache, q.order, q.fetches, q.evs, key, poll, ttl,
                      staleTime, retries, retryDelay)
     ELSE
       /\ cache' = q.cache
       /\ order' = q.order
       /\ fetches' = q.fetches
       /\ emitted' = q.evs
       /\ UNCHANGED pollVars
  /\ ret' = NoRet
  /\ updaterCalled' = FALSE
  /\ done' = NoFetch
  /\ lastCall' = AfterQuery(key)
  /\ UNCHANGED <<now, persistTimeout, lastWrite, storage, persistedKeys, live>>

\* -------------------------------------------------------------------------- gc
\* EVT.has("query:<key>:success")
HasListener(key) == listeners[key] > 0

\* Collectable without the subscriber test
Collectable_ByExpiry(key) == Gt(now, cache[key].expiry)

\* the test of gc's loop
Collectable(key) == Gt(now, cache[key].expiry) /\ ~HasListener(key)

\* gc()
Gc ==
  LET collected == SelectSeq(order, LAMBDA k : Collectable(k))
      gone == Range(collected)
  IN
  /\ op' = Op("gc", "")
  /\ cache' = [k \in Keys |-> IF k \in gone THEN NoEntry ELSE cache[k]]
  /\ order' = SelectSeq(order, LAMBDA k : k \notin gone)
  /\ IF Len(collected) > 0 THEN
       /\ persistTimeout' = schedulePersist
       /\ emitted' = <<GcEv(collected)>>
     ELSE
       /\ persistTimeout' = persistTimeout
       /\ emitted' = <<>>
  /\ lastWrite' = [k \in Keys |-> IF k \in gone THEN NoWrite ELSE lastWrite[k]]
  /\ lastCall' = [k \in Keys |-> IF k \in gone THEN NoCall ELSE lastCall[k]]
  /\ ret' = NoRet
  /\ updaterCalled' = FALSE
  /\ done' = NoFetch
  /\ UNCHANGED <<now, fetches, pollVars, envVars>>

\* ----------------------------------------------------------------- persistence
\* the characters of the keys and prefixes the model uses
Spelling(str) ==
  CASE str = "" -> <<>>
    [] str = "a" -> <<"a">>
    [] str = "b" -> <<"b">>
    [] str = "ab" -> <<"a", "b">>

\* key.startsWith(pk)
StartsWith(key, pk) ==
  LET k == Spelling(key)
      q == Spelling(pk)
  IN Len(q) <= Len(k) /\ SubSeq(k, 1, Len(q)) = q

\* the persistedKeys options the model constructs clients with
AllowLists ==
  {NoAllowList} \cup {[given |-> TRUE, prefixes |-> P] : P \in {{}, {"ab"}, {"a", "b"}}}

\* Persisted that ignores the allow-list
Persisted_All(key) == TRUE

\* !(persistedKeys && !persistedKeys.some((pk) => key.startsWith(pk)))
Persisted(key) ==
  ~persistedKeys.given \/ \E pk \in persistedKeys.prefixes : StartsWith(key, pk)

\* what JSON.stringify keeps of toStore[key] = { data, staleAt, expiry }: a
\* property whose value is undefined is left out
Stringify(key, entry) ==
  [key |-> key,
   fields |-> {"data"} \cup (IF entry.staleAt = UndefT THEN {} ELSE {"staleAt"})
                       \cup (IF entry.expiry = UndefT THEN {} ELSE {"expiry"}),
   data |-> entry.data,
   staleAt |-> OrZero(entry.staleAt),
   expiry |-> OrZero(entry.expiry)]

\* the entries saveToStorage's loop keeps, in iteration order
Kept(c, ord) == SelectSeq(ord, LAMBDA k : c[k].data # Undef /\ Persisted(k))

\* the blob saveToStorage writes for the store c with order ord
Blob(c, ord) ==
  [present |-> TRUE,
   wellFormed |-> TRUE,
   entries |-> [i \in 1..Len(Kept(c, ord)) |->
                  Stringify(Kept(c, ord)[i], c[Kept(c, ord)[i]])]]

\* no call has scheduled a save
NoBurst == [ops |-> 0, last |-> 0, flushed |-> 0]

\* the debounce timer is due
TimerDue == persistTimeout # UndefT /\ now >= persistTimeout

\* the step is a call that schedules a save: a fetch success, a mutate of an
\* existing entry, setQueryData, invalidate, invalidateMatching, or a gc
\* that collects
Schedules ==
  \/ op'.name \in {"resolve", "setQueryData", "invalidate", "invalidateMatching"}
  \/ op'.name = "mutate" /\ cache[op'.key].has
  \/ op'.name = "gc" /\ emitted' # <<>>

\* the scheduling calls are counted, and a storage write ends the burst
Counted ==
  burst' = IF Schedules
           THEN [burst EXCEPT !.ops = IF @ < MaxBurst THEN @ + 1 ELSE @, !.last = now]
           ELSE IF op'.name = "saveToStorage"
           THEN [ops |-> 0, last |-> 0, flushed |-> burst.ops]
           ELSE burst

\* the debounce timer fires: saveToStorage()
SaveToStorage ==
  /\ persistTimeout # UndefT
  /\ now >= persistTimeout
  /\ op' = Op("saveToStorage", "")
  /\ storage' = Blob(cache, order)
  /\ persistTimeout' = UndefT
  /\ ret' = NoRet
  /\ emitted' = <<>>
  /\ updaterCalled' = FALSE
  /\ done' = NoFetch
  /\ UNCHANGED <<now, cache, order, fetches, lastWrite, lastCall, pollVars,
                 listeners, persistedKeys, live>>

\* the beforeunload listener: stopAllPolling(); saveToStorage(); the page is
\* gone afterwards
Unload ==
  LET s == StopAllStep(timers, pollingIntervals, PolledKeys) IN
  /\ live
  /\ op' = Op("beforeunload", "")
  /\ timers' = s.timers
  /\ pollingIntervals' = s.pollingIntervals
  /\ emitted' = s.evs
  /\ storage' = Blob(cache, order)
  /\ live' = FALSE
  /\ ret' = NoRet
  /\ updaterCalled' = FALSE
  /\ done' = NoFetch
  /\ UNCHANGED <<now, cache, order, fetches, persistTimeout, lastWrite,
                 lastCall, listeners, persistedKeys>>

\* the entry { ...entry, promise: null } of a parsed blob entry: a property
\* the blob lacks reads as undefined
Parse(b) ==
  [has |-> TRUE,
   data |-> b.data,
   staleAt |-> IF "staleAt" \in b.fields THEN b.staleAt ELSE UndefT,
   expiry |-> IF "expiry" \in b.fields THEN b.expiry ELSE UndefT,
   promise |-> NullP,
   error |-> UndefE]

\* Restorable without the expiry test
Restorable_Always(b) == TRUE

\* now < entry.expiry
Restorable(b) == Lt(now, Parse(b).expiry)

\* the loop of loadFromStorage over the blob entries es, on the store c with
\* order ord
RECURSIVE LoadLoop(_, _, _)
LoadLoop(c, ord, es) ==
  IF es = <<>> THEN [cache |-> c, order |-> ord]
  ELSE
    LET b == Head(es) IN
    IF Restorable(b)
    THEN LoadLoop([c EXCEPT ![b.key] = Parse(b)], Inserted(ord, b.key), Tail(es))
    ELSE LoadLoop(c, ord, Tail(es))

\* the catch clauses of loadFromStorage and saveToStorage rethrow
Propagates_Rethrow(threw) == threw

\* the catch clauses of loadFromStorage and saveToStorage: console.warn, and
\* the exception ends there
Propagates(threw) == FALSE

\* the try block of loadFromStorage on the store c with order ord: where it
\* leaves the store, what it has published, and whether it ended in an
\* exception (JSON.parse on text that is not JSON)
LoadBody(c, ord) ==
  IF ~storage.present
  THEN [cache |-> c, order |-> ord, evs |-> <<>>, threw |-> FALSE]
  ELSE IF ~storage.wellFormed
  THEN [cache |-> c, order |-> ord, evs |-> <<>>, threw |-> TRUE]
  ELSE
    LET l == LoadLoop(c, ord, storage.entries) IN
    [cache |-> l.cache, order |-> l.order, evs |-> <<HydratedEv(l.order)>>,
     threw |-> FALSE]

\* loadFromStorage() on the store c with order ord: the store and order it
\* leaves, what it publishes and whether it throws
LoadFromStorage(c, ord) ==
  LET t == LoadBody(c, ord) IN
  [cache |-> t.cache, order |-> t.order, evs |-> t.evs,
   threw |-> Propagates(t.threw)]

\* the page is loaded again: createQuery(options) with the same options builds
\* a client with an empty store and runs loadFromStorage()
CreateQuery ==
  LET l == LoadFromStorage([k \in Keys |-> NoEntry], <<>>) IN
  /\ ~live
  /\ op' = Op("createQuery", "")
  /\ live' = TRUE
  /\ cache' = l.cache
  /\ order' = l.order
  /\ emitted' = l.evs
  /\ fetches' = [p \in Pids |-> NoFetch]
  /\ done' = NoFetch
  /\ persistTimeout' = UndefT
  /\ lastWrite' = [k \in Keys |-> NoWrite]
  /\ lastCall' = [k \in Keys |-> NoCall]
  /\ timers' = {}
  /\ pollingIntervals' = [k \in Keys |-> NoTimer]
  /\ listeners' = [k \in Keys |-> 0]
  /\ ret' = IF l.threw THEN RetThrow ELSE NoRet
  /\ updaterCalled' = FALSE
  /\ UNCHANGED <<now, storage, persistedKeys>>

\* the debounce timer fires and localStorage.setItem throws (the quota is
\* exceeded): saveToStorage() catches it
SaveToStorageThrows ==
  /\ persistTimeout # UndefT
  /\ now >= persistTimeout
  /\ op' = Op("saveToStorage:setItem throws", "")
  /\ persistTimeout' = UndefT
  /\ ret' = IF Propagates(TRUE) THEN RetThrow ELSE NoRet
  /\ emitted' = <<>>
  /\ updaterCalled' = FALSE
  /\ done' = NoFetch
  /\ UNCHANGED <<now, cache, order, fetches, lastWrite, lastCall, pollVars,
                 envVars>>

\* what other code of the origin leaves under persistKey: nothing, text that
\* is not JSON, or another client's blob
ForeignBlobs ==
  {NoBlob, Garbage,
   [present |-> TRUE, wellFormed |-> TRUE,
    entries |-> <<[key |-> "ab", fields |-> {"data", "staleAt", "expiry"},
                   data |-> "v2", staleAt |-> 1, expiry |-> 2]>>]}

\* another page of the origin writes or removes the item under persistKey
ForeignWrite(b) ==
  /\ storage # b
  /\ op' = Op("foreign write", "")
  /\ storage' = b
  /\ ret' = NoRet
  /\ emitted' = <<>>
  /\ updaterCalled' = FALSE
  /\ done' = NoFetch
  /\ UNCHANGED <<now, cache, order, fetches, persistTimeout, lastWrite,
                 lastCall, pollVars, listeners, persistedKeys, live>>

\* the window's storage listener for an event on persistKey:
\* loadFromStorage(), then a sync notification for every key of the store
StorageEvent ==
  LET l == LoadFromStorage(cache, order) IN
  /\ live
  /\ op' = Op("storage", "")
  /\ cache' = l.cache
  /\ order' = l.order
  /\ emitted' = IF l.threw THEN l.evs
                ELSE l.evs \o [i \in 1..Len(l.order) |->
                                SyncEv(l.order[i], l.cache[l.order[i]].data)]
  /\ ret' = IF l.threw THEN RetThrow ELSE NoRet
  /\ updaterCalled' = FALSE
  /\ done' = NoFetch
  /\ UNCHANGED <<now, fetches, persistTimeout, lastWrite, lastCall, pollVars,
                 envVars>>

\* the window's storage listener for an event on another key of the
\* storage: e.key === persistKey is false
StorageEventOther ==
  /\ live
  /\ op' = Op("storage:other key", "")
  /\ ret' = NoRet
  /\ emitted' = <<>>
  /\ updaterCalled' = FALSE
  /\ done' = NoFetch
  /\ UNCHANGED <<now, cache, order, fetches, persistTimeout, lastWrite,
                 lastCall, pollVars, envVars>>

\* ------------------------------------------------------------------------- EVT
\* the callbacks handed to sub and once: one that returns, one that throws,
\* one that publishes the same event again
Callbacks == {"plain", "thrower", "republisher"}

\* an element of the handler Set of the event name: the callback itself
\* (once = FALSE) or the n-th onceCallback made for it; live = FALSE marks
\* an element deleted while a forEach over the Set is running
Handler(once, cb, n) == [once |-> once, cb |-> cb, n |-> n, live |-> TRUE]

OnceHandlers == {Handler(TRUE, cb, n) : cb \in Callbacks, n \in 1..MaxOnce}

\* EVT with no listener; log, errors and pubs describe the last top-level pub:
\* the handler invocations in order, the console.error calls, the pub calls
NoEvt ==
  [handlers |-> <<>>, log |-> <<>>, count |-> [h \in OnceHandlers |-> 0],
   errors |-> 0, pubs |-> 0]

\* the handlers of the Set
Registered(hs) == {hs[i] : i \in {j \in 1..Len(hs) : hs[j].live}}

\* handlers.add(h)
SetAdd(hs, h) == IF h \in Registered(hs) THEN hs ELSE Append(hs, h)

\* handlers.delete(h)
SetDelete(hs, h) ==
  [i \in 1..Len(hs) |-> IF hs[i] = h THEN [h EXCEPT !.live = FALSE] ELSE hs[i]]

\* the Set once no forEach is running
Compact(hs) == SelectSeq(hs, LAMBDA h : h.live)

\* pub without the try/catch around cb(...data)
CatchInPub_Absent == FALSE

\* pub wraps each cb(...data) in try/catch
CatchInPub == TRUE

RECURSIVE pub(_, _, _)
RECURSIVE forEach(_, _, _, _, _)
RECURSIVE call(_, _, _, _, _)

\* pub(name, data) called with depth - 1 pub calls on the stack, on the bus
\* r: the bus it leaves and whether it throws (a call the stack has no room
\* for throws RangeError)
pub(r, data, depth) ==
  IF depth > MaxDepth THEN [r |-> r, threw |-> TRUE]
  ELSE forEach([r EXCEPT !.pubs = @ + 1], r.pubs + 1, data, depth, 1)

\* handlers.forEach of pub number n, from the i-th element of the Set on
forEach(r, n, data, depth, i) ==
  IF i > Len(r.handlers) THEN [r |-> r, threw |-> FALSE]
  ELSE IF ~r.handlers[i].live THEN forEach(r, n, data, depth, i + 1)
  ELSE
    LET c == call(r, n, r.handlers[i], data, depth) IN
    IF ~c.threw THEN forEach(c.r, n, data, depth, i + 1)
    ELSE IF CatchInPub
    THEN forEach([c.r EXCEPT !.errors = @ + 1], n, data, depth, i + 1)
    ELSE [r |-> c.r, threw |-> TRUE]

\* the handler h is invoked by pub number n: the callback's body and, for a
\* onceCallback, this.unsub(name, onceCallback) when the callback returned
call(r, n, h, data, depth) ==
  LET r1 == [r EXCEPT
               !.log = Append(@, [pub |-> n, h |-> h, data |-> data]),
               !.count = IF h.once
                         THEN [@ EXCEPT ![h] = IF @ < MaxCalls THEN @ + 1 ELSE @]
                         ELSE @]
      body == CASE h.cb = "plain" -> [r |-> r1, threw |-> FALSE]
                [] h.cb = "thrower" -> [r |-> r1, threw |-> TRUE]
                [] h.cb = "republisher" -> pub(r1, data, depth + 1)
  IN
  IF h.once /\ ~body.threw
  THEN [r |-> [body.r EXCEPT !.handlers = SetDelete(@, h)], threw |-> FALSE]
  ELSE body

\* a step of the bus leaves the store alone
StoreIdle ==
  /\ emitted' = <<>>
  /\ UNCHANGED <<now, cache, order, fetches, done, persistTimeout,
                 updaterCalled, lastWrite, lastCall, pollVars, envVars>>

\* EVT.sub(name, cb)
Sub(cb) ==
  /\ Len(evt.handlers) < MaxHandlers
  /\ Handler(FALSE, cb, 0) \notin Registered(evt.handlers)
  /\ op' = OpArg("EVT.sub", "", {cb})
  /\ evt' = [evt EXCEPT !.handlers = SetAdd(@, Handler(FALSE, cb, 0)),
                        !.log = <<>>, !.errors = 0, !.pubs = 0]
  /\ ret' = NoRet
  /\ StoreIdle

\* EVT.once(name, cb): a new onceCallback is subscribed
Once(cb) ==
  LET free == {n \in 1..MaxOnce :
                 Handler(TRUE, cb, n) \notin Registered(evt.handlers)}
      h == Handler(TRUE, cb, CHOOSE n \in free : \A m \in free : n <= m)
  IN
  /\ Len(evt.handlers) < MaxHandlers
  /\ free # {}
  /\ op' = OpArg("EVT.once", "", {cb})
  /\ evt' = [evt EXCEPT !.handlers = SetAdd(@, h), !.count[h] = 0,
                        !.log = <<>>, !.errors = 0, !.pubs = 0]
  /\ ret' = NoRet
  /\ StoreIdle

\* EVT.unsub(name, cb) with a callback given to sub
Unsub(cb) ==
  /\ Handler(FALSE, cb, 0) \in Registered(evt.handlers)
  /\ op' = OpArg("EVT.unsub", "", {cb})
  /\ evt' = [evt EXCEPT
               !.handlers = Compact(SetDelete(@, Handler(FALSE, cb, 0))),
               !.log = <<>>, !.errors = 0, !.pubs = 0]
  /\ ret' = NoRet
  /\ StoreIdle

\* EVT.pub(name, data) called by the program
Pub(data) ==
  LET p == pub([evt EXCEPT !.log = <<>>, !.errors = 0, !.pubs = 0], data, 1) IN
  /\ op' = OpArg("EVT.pub", "", {data})
  /\ evt' = [p.r EXCEPT !.handlers = Compact(@)]
  /\ ret' = IF p.threw THEN RetThrow ELSE NoRet
  /\ StoreIdle

\* -------------------------------------------------------------------- reactive
\* two signals and two effects: one reads x.val then y.val, one reads x.val
Signals == {"x", "y"}

Effects == {"both", "onlyX"}

Reads(e) == IF e = "both" THEN <<"x", "y">> ELSE <<"x">>

\* the module with signal(null) twice and no effect; runsInFn and runsOutside
\* count the runs of each effect in the last step, during the function given
\* to batch and outside it; saw is what each effect read in its last run
NoRx ==
  [val |-> [s \in Signals |-> Null],
   subs |-> [s \in Signals |-> <<>>],
   batching |-> FALSE,
   pending |-> <<>>,
   runsInFn |-> [e \in Effects |-> 0],
   runsOutside |-> [e \in Effects |-> 0],
   saw |-> [e \in Effects |-> [s \in Signals |-> Undef]]]

\* the run counts of a new step
Unrun(r) ==
  [r EXCEPT !.runsInFn = [e \in Effects |-> 0],
            !.runsOutside = [e \in Effects |-> 0]]

\* the getter of signal s while effect e is being tracked: subs.add(_tracking)
RECURSIVE Track(_, _, _)
Track(r, e, reads) ==
  IF reads = <<>> THEN r
  ELSE LET s == Head(reads) IN
       Track([r EXCEPT !.subs[s] = Inserted(@, e), !.saw[e][s] = r.val[s]],
             e, Tail(reads))

\* run() of effect e, inside the function given to batch or not
run(r, e, inFn) ==
  LET counted == IF inFn THEN [r EXCEPT !.runsInFn[e] = @ + 1]
                         ELSE [r EXCEPT !.runsOutside[e] = @ + 1]
  IN Track([counted EXCEPT !.saw[e] = [s \in Signals |-> Undef]], e, Reads(e))

\* for (const fn of subs) fn()
RECURSIVE RunAll(_, _, _)
RunAll(r, es, inFn) ==
  IF es = <<>> THEN r ELSE RunAll(run(r, Head(es), inFn), Tail(es), inFn)

\* the setter of signal s
SetVal(r, s, v, inFn) ==
  IF v = r.val[s] THEN r
  ELSE RunAll([r EXCEPT !.val[s] = v], r.subs[s], inFn)

\* a step of the signals leaves the store alone
RxStep(name) ==
  /\ op' = Op(name, "")
  /\ ret' = NoRet
  /\ StoreIdle

\* effect(fn): the first run
Effect(e) ==
  /\ \A s \in Signals : e \notin Range(rx.subs[s])
  /\ rx' = run(Unrun(rx), e, FALSE)
  /\ RxStep("effect")

\* s.val = v outside batch
Write(s, v) ==
  /\ rx' = SetVal(Unrun(rx), s, v, FALSE)
  /\ RxStep("write")

\* batch(() => { x.val = vx; y.val = vy })
Batch(vx, vy) ==
  LET b == [Unrun(rx) EXCEPT !.batching = TRUE]
      w1 == SetVal(b, "x", vx, TRUE)
      w2 == SetVal(w1, "y", vy, TRUE)
      flushed == RunAll([w2 EXCEPT !.batching = FALSE], w2.pending, FALSE)
  IN
  /\ rx' = [flushed EXCEPT !.pending = <<>>]
  /\ RxStep("batch")

\* ------------------------------------------------------------------- subscribe
\* subscribe(key, callback): its handler on the key's success topic
Subscribe(key) ==
  /\ listeners[key] < MaxListeners
  /\ op' = Op("subscribe", key)
  /\ listeners' = [listeners EXCEPT ![key] = @ + 1]
  /\ ret' = NoRet
  /\ emitted' = <<>>
  /\ updaterCalled' = FALSE
  /\ done' = NoFetch
  /\ UNCHANGED <<now, cache, order, fetches, persistTimeout, lastWrite,
                 lastCall, pollVars, storage, persistedKeys, live>>

\* the function subscribe returned is called
Unsubscribe(key) ==
  /\ listeners[key] > 0
  /\ op' = Op("unsubscribe", key)
  /\ listeners' = [listeners EXCEPT ![key] = @ - 1]
  /\ ret' = NoRet
  /\ emitted' = <<>>
  /\ updaterCalled' = FALSE
  /\ done' = NoFetch
  /\ UNCHANGED <<now, cache, order, fetches, persistTimeout, lastWrite,
                 lastCall, pollVars, storage, persistedKeys, live>>

\* clear()
Clear ==
  /\ op' = Op("clear", "")
  /\ cache' = [k \in Keys |-> NoEntry]
  /\ order' = <<>>
  /\ storage' = NoBlob
  /\ emitted' = <<Ev("cleared", "")>>
  /\ lastWrite' = [k \in Keys |-> NoWrite]
  /\ lastCall' = [k \in Keys |-> IF cache[k].has THEN RemovedCall("clear")
                                     ELSE lastCall[k]]
  /\ ret' = NoRet
  /\ updaterCalled' = FALSE
  /\ done' = NoFetch
  /\ UNCHANGED <<now, fetches, persistTimeout, pollVars, listeners,
                 persistedKeys, live>>

\* ---------------------------------------------------------- querySignal, bindQuery
\* what JavaScript takes for true, of a data value
Truthy(v) == v \notin {Undef, Null, Empty}

\* the string render(data) returns; an element not yet rendered holds <<>>
Render(data) == <<"html of", data>>

\* no querySignal and no bindQuery; cbCalls counts the calls of the
\* subscribe callback in the last step, renders lists the data of its render
\* calls, loadings counts its onLoading calls
NoUi ==
  [qs |-> FALSE, key |-> "", data |-> Null, loading |-> FALSE,
   error |-> NullE, handler |-> FALSE, onInvalidate |-> FALSE,
   unsubscribed |-> FALSE, cbCalls |-> 0,
   bound |-> FALSE, bkey |-> "", el |-> <<>>, renders |-> <<>>, loadings |-> 0]

\* the counts of a new step
Fresh(u) == [u EXCEPT !.cbCalls = 0, !.renders = <<>>, !.loadings = 0]

\* the callback querySignal gives to subscribe, called with entry (has =
\* FALSE: null)
Callback(u, entry) ==
  [u EXCEPT
     !.data = IF entry.has /\ Truthy(entry.data) THEN entry.data ELSE @,
     !.error = IF entry.has /\ entry.error \notin {UndefE, NullE} THEN entry.error ELSE @,
     !.loading = entry.has /\ entry.promise >= 1 /\ ~Truthy(entry.data),
     !.cbCalls = @ + 1]

\* { ...getEntry(key), ...data } for the payload of notification ev
Merged(entry, ev) ==
  IF ev.ev = "error"
  THEN [entry EXCEPT !.has = TRUE, !.error = ev.error]
  ELSE [entry EXCEPT !.has = TRUE, !.data = ev.data]

\* the per-key events subscribe's handler listens to
HandlerTopics == {"success", "error", "mutate", "set"}

\* RenderTopics with the error topic added
RenderTopics_WithError == {"success", "set", "mutate", "error"}

\* the per-key events bindQuery renders on
RenderTopics == {"success", "set", "mutate"}

\* the listeners of the querySignal and of the bindQuery run for the
\* notification ev, published with the store in state c
Deliver1(u, ev, c) ==
  LET u1 == IF u.handler /\ ev.key = u.key /\ ev.ev \in HandlerTopics
            THEN Callback(u, Merged(c[u.key], ev))
            ELSE IF u.onInvalidate /\ ev.key = u.key /\ ev.ev = "invalidate"
            THEN Callback(u, NoEntry)
            ELSE u
  IN
  IF u1.bound /\ ev.key = u1.bkey /\ ev.ev \in RenderTopics
  THEN [u1 EXCEPT !.renders = Append(@, ev.data), !.el = Render(ev.data)]
  ELSE IF u1.bound /\ ev.key = u1.bkey /\ ev.ev = "fetch" /\ ~ev.hasCache
  THEN [u1 EXCEPT !.loadings = @ + 1]
  ELSE u1

\* the listeners run for the notifications evs in order
RECURSIVE Deliver(_, _, _)
Deliver(u, evs, c) ==
  IF evs = <<>> THEN u ELSE Deliver(Deliver1(u, Head(evs), c), Tail(evs), c)

\* the listeners run for the notifications of this step
Notified == ui' = Deliver(Fresh(ui), emitted', cache')

\* querySignal(key, fetcher, { ttl, staleTime, enabled }): the cells, the
\* subscription with its immediate callback, and fetch() unless enabled is
\* false
QuerySignal(key, enabled, ttl, staleTime) ==
  LET u0 == [Fresh(ui) EXCEPT !.qs = TRUE, !.key = key, !.data = Null,
                              !.loading = FALSE, !.error = NullE,
                              !.handler = TRUE, !.onInvalidate = TRUE,
                              !.unsubscribed = FALSE]
      u1 == IF cache[key].has THEN Callback(u0, cache[key]) ELSE u0
      q == QueryStep(cache, order, fetches, key, ttl, staleTime, 0, 0)
  IN
  /\ ~ui.qs
  /\ listeners[key] < MaxListeners
  /\ op' = OpArg("querySignal", key, IF enabled THEN {"enabled"} ELSE {})
  /\ listeners' = [listeners EXCEPT ![key] = @ + 1]
  /\ IF enabled THEN
       /\ q.ok
       /\ cache' = q.cache
       /\ order' = q.order
       /\ fetches' = q.fetches
       /\ emitted' = q.evs
       /\ lastCall' = AfterQuery(key)
       /\ ui' = Deliver([u1 EXCEPT !.loading = TRUE], q.evs, q.cache)
     ELSE
       /\ emitted' = <<>>
       /\ ui' = u1
       /\ UNCHANGED <<cache, order, fetches, lastCall>>
  /\ ret' = NoRet
  /\ updaterCalled' = FALSE
  /\ done' = NoFetch
  /\ UNCHANGED <<now, persistTimeout, lastWrite, pollVars, storage,
                 persistedKeys, live>>

\* the signal's fetch(): loading.val = true, then query
SignalFetch(ttl, staleTime) ==
  /\ ui.qs
  /\ Query(ui.key, ttl, staleTime, 0, 0)
  /\ ui' = Deliver([Fresh(ui) EXCEPT !.loading = TRUE], emitted', cache')

\* the signal's refetch(): invalidate(key), then fetch()
SignalRefetch(ttl, staleTime) ==
  LET key == ui.key
      c == [cache EXCEPT ![key] = NoEntry]
      evs == <<Ev("invalidate", key)>>
      u1 == Deliver(Fresh(ui), evs, c)
  IN
  /\ ui.qs
  /\ op' = Op("refetch", key)
  /\ persistTimeout' = schedulePersist
  /\ lastWrite' = [lastWrite EXCEPT ![key] = NoWrite]
  /\ QueryOn(c, Deleted(order, key), evs, key, ttl, staleTime, 0, 0)
  /\ lastCall' = [lastCall EXCEPT ![key] = NoCall]
  /\ ui' = [u1 EXCEPT !.loading = TRUE]
  /\ updaterCalled' = FALSE
  /\ done' = NoFetch
  /\ UNCHANGED <<now, pollVars, envVars>>

\* the signal's mutate(updater): mutate, then data.val = getEntry(key)?.data
SignalMutate(u) ==
  /\ ui.qs
  /\ Mutate(ui.key, u)
  /\ ui' = [Deliver(Fresh(ui), emitted', cache') EXCEPT
              !.data = cache'[ui.key].data]

\* the signal's unsubscribe(): handler leaves the four topics it is on; the
\* listener on the invalidate topic is another function and stays
SignalUnsubscribe ==
  /\ ui.qs
  /\ ui.handler
  /\ Unsubscribe(ui.key)
  /\ ui' = [Fresh(ui) EXCEPT !.handler = FALSE, !.unsubscribed = TRUE]

\* bindQuery(key, fetcher, { target, render, onLoading, ...queryOptions })
\* without poll
Bind(key, ttl, staleTime) ==
  /\ ~ui.bound
  /\ BindQuery(key, 0, ttl, staleTime, 0, 0)
  /\ ui' = Deliver([Fresh(ui) EXCEPT !.bound = TRUE, !.bkey = key],
                   emitted', cache')

\* the state after createQuery with an empty store and room for n fetches
InitWith(n) ==
  /\ now = 0
  /\ cache = [k \in Keys |-> NoEntry]
  /\ order = <<>>
  /\ lastCall = [k \in Keys |-> NoCall]
  /\ timers = {}
  /\ pollingIntervals = [k \in Keys |-> NoTimer]
  /\ listeners = [k \in Keys |-> 0]
  /\ storage = NoBlob
  /\ persistedKeys = NoAllowList
  /\ live = TRUE
  /\ fetches = [p \in 1..n |-> NoFetch]
  /\ done = NoFetch
  /\ persistTimeout = UndefT
  /\ lastWrite = [k \in Keys |-> NoWrite]
  /\ op = Op("init", "")
  /\ ret = NoRet
  /\ emitted = <<>>
  /\ updaterCalled = FALSE
  /\ evt = NoEvt
  /\ rx = NoRx
  /\ ui = NoUi
  /\ burst = NoBurst

Init == InitWith(MaxFetches)

\* the clock advances by one tick
Tick(max) ==
  /\ now < max
  /\ \A t \in timers : now < t.nextAt
  /\ now' = now + 1
  /\ op' = Op("tick", "")
  /\ ret' = NoRet
  /\ emitted' = <<>>
  /\ updaterCalled' = FALSE
  /\ done' = NoFetch
  /\ lastCall' = [k \in Keys |->
                    IF lastCall[k].name = "set" /\ lastCall[k].until <= now + 1
                    THEN NoCall ELSE lastCall[k]]
  /\ UNCHANGED <<cache, order, fetches, persistTimeout, lastWrite, pollVars,
                 envVars>>

\* the client driven through its store operations, fetchers that settle at
\* any time, no retries
Next ==
  \/ Tick(MaxTime) /\ Aside
  \/ \E k \in OneKey, ttl \in Ttls, st \in StaleTimes : Query(k, ttl, st, 0, 0) /\ Aside
  \/ \E p \in Pids, v \in Values : FetcherResolve(p, v) /\ Aside
  \/ \E p \in Pids : FetcherReject(p) /\ Aside
  \/ \E k \in OneKey, u \in Updaters : Mutate(k, u) /\ Aside
  \/ \E k \in OneKey, v \in Values, ttl \in Ttls, st \in StaleTimes :
        SetQueryData(k, v, ttl, st) /\ Aside
  \/ \E k \in OneKey : Invalidate(k, FALSE) /\ Aside
  \/ Clear /\ Aside

Spec == Init /\ [][Next]_vars

\* the same client with room for one more concurrent fetch
SpecOverlap == InitWith(MaxFetches + 1) /\ [][Next]_vars

\* queries with retries and back-off, fetchers that settle at any time
NextRetry ==
  \/ Tick(RetryMaxTime) /\ Aside
  \/ \E k \in OneKey, ttl \in Ttls, st \in StaleTimes, r \in 0..MaxRetries,
        d \in RetryDelays : Query(k, ttl, st, r, d) /\ Aside
  \/ \E p \in Pids, v \in Values : FetcherResolve(p, v) /\ Aside
  \/ \E p \in Pids : FetcherReject(p) /\ Aside
  \/ \E p \in Pids : RetryWake(p) /\ Aside
  \/ \E k \in OneKey, u \in Updaters : Mutate(k, u) /\ Aside

SpecRetry == Init /\ [][NextRetry]_vars

\* polls, bindings and manual queries on a client with room for two
\* concurrent fetches; interval timers fire when they are due
NextPoll ==
  \/ Tick(PollMaxTime) /\ Aside
  \/ \E k \in OneKey, i \in Intervals, ttl \in Ttls, st \in StaleTimes :
        StartPolling(k, i, ttl, st, 0, 0) /\ Aside
  \/ \E k \in OneKey : StopPolling(k) /\ Aside
  \/ \E t \in timers : PollTick(t) /\ Aside
  \/ \E k \in OneKey, ttl \in Ttls, st \in StaleTimes : Query(k, ttl, st, 0, 0) /\ Aside
  \/ \E k \in OneKey, i \in {0} \cup Intervals, ttl \in Ttls, st \in StaleTimes :
        BindQuery(k, i, ttl, st, 0, 0) /\ Aside
  \/ \E p \in Pids, v \in Values : FetcherResolve(p, v) /\ Aside
  \/ \E p \in Pids : FetcherReject(p) /\ Aside

SpecPoll == InitWith(MaxFetches + 1) /\ [][NextPoll]_vars

\* the poll table driven over two keys: polls started, restarted and stopped
\* in any order, timers firing when due, fetchers that resolve
NextPollTable ==
  \/ Tick(TableMaxTime) /\ Aside
  \/ \E k \in Keys, i \in Intervals, ttl \in Ttls :
        StartPolling(k, i, ttl, 1, 0, 0) /\ Aside
  \/ \E k \in Keys : StopPolling(k) /\ Aside
  \/ StopAllPolling /\ Aside
  \/ \E t \in timers : PollTick(t) /\ Aside
  \/ \E p \in Pids : FetcherResolve(p, "v1") /\ Aside

SpecPollTable == InitWith(MaxFetches + 1) /\ [][NextPollTable]_vars

\* a client constructed with any of the allow-lists
InitStore ==
  /\ \E al \in AllowLists : persistedKeys = al
  /\ now = 0
  /\ cache = [k \in Keys |-> NoEntry]
  /\ order = <<>>
  /\ lastCall = [k \in Keys |-> NoCall]
  /\ timers = {}
  /\ pollingIntervals = [k \in Keys |-> NoTimer]
  /\ listeners = [k \in Keys |-> 0]
  /\ storage = NoBlob
  /\ live = TRUE
  /\ fetches = [p \in 1..MaxFetches |-> NoFetch]
  /\ done = NoFetch
  /\ persistTimeout = UndefT
  /\ lastWrite = [k \in Keys |-> NoWrite]
  /\ op = Op("init", "")
  /\ ret = NoRet
  /\ emitted = <<>>
  /\ updaterCalled = FALSE
  /\ evt = NoEvt
  /\ rx = NoRx
  /\ ui = NoUi
  /\ burst = NoBurst

\* the store over two keys with removal by predicate, gc and subscribers
NextStore ==
  \/ Tick(StoreMaxTime) /\ Aside
  \/ \E k \in Keys, ttl \in Ttls : SetQueryData(k, "v1", ttl, 1) /\ Aside
  \/ \E k \in OneKey, ttl \in Ttls : Query(k, ttl, 1, 0, 0) /\ Aside
  \/ \E p \in Pids : FetcherReject(p) /\ Aside
  \/ \E pred \in Predicates : InvalidateMatching(pred) /\ Aside
  \/ Gc /\ Aside
  \/ \E k \in Keys : Subscribe(k) /\ Aside
  \/ \E k \in Keys : Unsubscribe(k) /\ Aside

SpecStore == Init /\ [][NextStore]_vars

\* the store over two keys with the debounced save and page reloads, for
\* every allow-list
NextPersist ==
  \/ Tick(PersistMaxTime) /\ Aside
  \/ live /\ \E k \in Keys, ttl \in Ttls : SetQueryData(k, "v1", ttl, 1) /\ Aside
  \/ live /\ \E k \in OneKey, ttl \in Ttls : Query(k, ttl, 1, 0, 0) /\ Aside
  \/ live /\ \E p \in Pids : FetcherReject(p) /\ Aside
  \/ live /\ \E k \in OneKey : Mutate(k, [isFn |-> FALSE, val |-> "v2"]) /\ Aside
  \/ live /\ SaveToStorage /\ Aside
  \/ Unload /\ Aside
  \/ CreateQuery /\ Aside

SpecPersist == InitStore /\ [][NextPersist]_vars

\* the store beside other code that writes under persistKey: saves that
\* succeed or fail, storage events, page reloads
NextForeign ==
  \/ Tick(PersistMaxTime) /\ Aside
  \/ live /\ \E k \in Keys, ttl \in Ttls : SetQueryData(k, "v1", ttl, 1) /\ Aside
  \/ live /\ SaveToStorage /\ Aside
  \/ live /\ SaveToStorageThrows /\ Aside
  \/ \E b \in ForeignBlobs : ForeignWrite(b) /\ Aside
  \/ StorageEvent /\ Aside
  \/ StorageEventOther /\ Aside
  \/ Unload /\ Aside
  \/ CreateQuery /\ Aside

SpecForeign == Init /\ [][NextForeign]_vars

\* one event name of an EVT object: handlers subscribed, subscribed once and
\* unsubscribed, publications
NextEvt ==
  \/ \E cb \in Callbacks : Sub(cb) /\ UNCHANGED <<rx, ui, burst>>
  \/ \E cb \in Callbacks : Once(cb) /\ UNCHANGED <<rx, ui, burst>>
  \/ \E cb \in Callbacks : Unsub(cb) /\ UNCHANGED <<rx, ui, burst>>
  \/ \E d \in Values : Pub(d) /\ UNCHANGED <<rx, ui, burst>>

SpecEvt == Init /\ [][NextEvt]_vars

\* a querySignal on one key beside store calls for the key and fetchers
\* that resolve, with a true or a false value, or reject
NextSignal ==
  \/ Tick(MaxTime) /\ Notified /\ UNCHANGED <<evt, rx, burst>>
  \/ \E k \in OneKey, en \in BOOLEAN, ttl \in Ttls, st \in StaleTimes :
        QuerySignal(k, en, ttl, st) /\ UNCHANGED <<evt, rx, burst>>
  \/ \E ttl \in Ttls, st \in StaleTimes :
        SignalFetch(ttl, st) /\ UNCHANGED <<evt, rx, burst>>
  \/ \E ttl \in Ttls, st \in StaleTimes :
        SignalRefetch(ttl, st) /\ UNCHANGED <<evt, rx, burst>>
  \/ \E u \in Updaters : SignalMutate(u) /\ UNCHANGED <<evt, rx, burst>>
  \/ SignalUnsubscribe /\ UNCHANGED <<evt, rx, burst>>
  \/ \E k \in OneKey, v \in Values, ttl \in Ttls, st \in StaleTimes :
        SetQueryData(k, v, ttl, st) /\ Notified /\ UNCHANGED <<evt, rx, burst>>
  \/ \E k \in OneKey : Invalidate(k, FALSE) /\ Notified /\ UNCHANGED <<evt, rx, burst>>
  \/ \E p \in Pids, v \in Values \cup {Empty} :
        FetcherResolve(p, v) /\ Notified /\ UNCHANGED <<evt, rx, burst>>
  \/ \E p \in Pids : FetcherReject(p) /\ Notified /\ UNCHANGED <<evt, rx, burst>>

SpecSignal == Init /\ [][NextSignal]_vars

\* a bindQuery on one key beside store calls for both keys, at one instant:
\* queries that hit, fetch and retry, fetchers that resolve or reject
NextBind ==
  \/ \E k \in OneKey, ttl \in Ttls : Bind(k, ttl, 1) /\ UNCHANGED <<evt, rx, burst>>
  \/ \E k \in OneKey, ttl \in Ttls :
        Query(k, ttl, 1, 1, 1) /\ Notified /\ UNCHANGED <<evt, rx, burst>>
  \/ \E k \in Keys, ttl \in Ttls :
        SetQueryData(k, "v1", ttl, 1) /\ Notified /\ UNCHANGED <<evt, rx, burst>>
  \/ \E k \in OneKey, u \in Updaters :
        Mutate(k, u) /\ Notified /\ UNCHANGED <<evt, rx, burst>>
  \/ \E k \in OneKey : Invalidate(k, FALSE) /\ Notified /\ UNCHANGED <<evt, rx, burst>>
  \/ \E p \in Pids, v \in Values :
        FetcherResolve(p, v) /\ Notified /\ UNCHANGED <<evt, rx, burst>>
  \/ \E p \in Pids : FetcherReject(p) /\ Notified /\ UNCHANGED <<evt, rx, burst>>

SpecBind == Init /\ [][NextBind]_vars

\* signals written alone and in batches, effects created
NextRx ==
  \/ \E e \in Effects : Effect(e) /\ UNCHANGED <<evt, ui, burst>>
  \/ \E s \in Signals, v \in Values : Write(s, v) /\ UNCHANGED <<evt, ui, burst>>
  \/ \E vx \in Values, vy \in Values : Batch(vx, vy) /\ UNCHANGED <<evt, ui, burst>>

SpecRx == Init /\ [][NextRx]_vars

\* the clock's limit while a back-off timer is pending: the timer fires
Horizon == IF \E p \in Pids : fetches[p].phase = "sleeping" /\ fetches[p].wakeAt > now THEN now + 1 ELSE TableMaxTime

\* the fetcher's promise of fetch p settles
FetcherSettles(p) == (\E v \in {"v1"} : FetcherResolve(p, v)) \/ FetcherReject(p)

\* queries with retries beside writes and removals of the key; no fetch
\* starts after the clock's limit
NextOrder ==
  \/ Tick(Horizon) /\ Aside
  \/ \E k \in OneKey, ttl \in Ttls, r \in 0..MaxRetries :
        now <= TableMaxTime /\ Query(k, ttl, 1, r, 1) /\ Aside
  \/ \E p \in Pids : FetcherResolve(p, "v1") /\ Aside
  \/ \E p \in Pids : FetcherReject(p) /\ Aside
  \/ \E p \in Pids : RetryWake(p) /\ Aside
  \/ \E k \in OneKey, ttl \in Ttls : SetQueryData(k, "v2", ttl, 1) /\ Aside
  \/ \E k \in OneKey : Invalidate(k, FALSE) /\ Aside

\* every fetcher promise settles, every back-off timer fires, time passes
Settling ==
  /\ WF_vars(Tick(Horizon) /\ Aside)
  /\ \A p \in 1..MaxFetches : WF_vars(p \in Pids /\ FetcherSettles(p) /\ Aside)
  /\ \A p \in 1..MaxFetches : WF_vars(p \in Pids /\ RetryWake(p) /\ Aside)

SpecOrder == Init /\ [][NextOrder]_vars /\ Settling

\* the store with the debounced save: the timer fires before the clock
\* passes its due time
NextDebounce ==
  \/ ~TimerDue /\ Tick(TableMaxTime) /\ Counted /\ UNCHANGED <<evt, rx, ui>>
  \/ \E k \in OneKey, ttl \in Ttls :
        SetQueryData(k, "v1", ttl, 1) /\ Counted /\ UNCHANGED <<evt, rx, ui>>
  \/ \E k \in OneKey, ttl \in Ttls :
        Query(k, ttl, 1, 0, 0) /\ Counted /\ UNCHANGED <<evt, rx, ui>>
  \/ \E p \in Pids : FetcherResolve(p, "v2") /\ Counted /\ UNCHANGED <<evt, rx, ui>>
  \/ \E p \in Pids : FetcherReject(p) /\ Counted /\ UNCHANGED <<evt, rx, ui>>
  \/ \E k \in OneKey :
        Mutate(k, [isFn |-> FALSE, val |-> "v2"]) /\ Counted /\ UNCHANGED <<evt, rx, ui>>
  \/ \E k \in OneKey : Invalidate(k, FALSE) /\ Counted /\ UNCHANGED <<evt, rx, ui>>
  \/ \E pred \in SUBSET OneKey :
        InvalidateMatching(pred) /\ Counted /\ UNCHANGED <<evt, rx, ui>>
  \/ Gc /\ Counted /\ UNCHANGED <<evt, rx, ui>>
  \/ SaveToStorage /\ Counted /\ UNCHANGED <<evt, rx, ui>>

SpecDebounce == Init /\ [][NextDebounce]_vars

\* ----------------------------------------------------------------- claims
\* the unsettled fetches of key k
Unsettled(k) == {p \in Pids : fetches[p].phase # "free" /\ fetches[p].key = k}

\* C1: in every reachable state, each key has at most one unsettled
\* retry-wrapped fetch.
C1_SingleFlight == \A k \in Keys : Cardinality(Unsettled(k)) <= 1

\* C3: a query on a key whose entry exists with now < staleAt returns the
\* entry's data, invokes no fetcher, emits one hit notification and no fetch
\* notification, and leaves the entry unchanged.
C3_FreshHit ==
  [][\A k \in Keys :
       (op' = Op("query", k) /\ cache[k].has /\ now < cache[k].staleAt) =>
         /\ ret' = RetValue(cache[k].data)
         /\ fetches' = fetches
         /\ emitted' = <<HitEv(k, cache[k].data)>>
         /\ cache' = cache]_vars

\* a query has just been answered from a fresh entry holding a value
C3_Witness ==
  \E k \in Keys :
    /\ cache[k].has /\ now < cache[k].staleAt /\ cache[k].data \in Values
    /\ emitted = <<HitEv(k, cache[k].data)>>
    /\ ret = RetValue(cache[k].data)
    /\ op = Op("query", k)

\* C10: mutate on a key with no entry returns null, creates no entry, does not
\* call the updater, emits nothing and schedules no save.
C10_MutateMissing ==
  [][\A k \in Keys :
       (op' = Op("mutate", k) /\ ~cache[k].has) =>
         /\ ret' = RetValue(Null)
         /\ cache' = cache
         /\ ~updaterCalled'
         /\ emitted' = <<>>
         /\ persistTimeout' = persistTimeout]_vars

\* mutate has just returned null for a key without an entry, after other
\* operations had run
C10_Witness ==
  /\ op.name = "mutate"
  /\ ret = RetValue(Null)
  /\ emitted = <<>>
  /\ ~cache[op.key].has
  /\ persistTimeout # UndefT

\* C2 (as amended): a query on a key whose entry is not fresh and holds an
\* in-flight promise returns that promise, invokes no fetcher and emits
\* nothing; the promise is that of the key's unsettled fetch, the same one
\* a starter that was not served stale data holds.
C2_Dedup ==
  [][\A k \in Keys :
       (/\ op' = Op("query", k)
        /\ cache[k].has /\ ~(now < cache[k].staleAt) /\ cache[k].promise >= 1) =>
         LET p == cache[k].promise IN
         /\ fetches[p].phase \in {"fetching", "sleeping"}
         /\ fetches[p].key = k
         /\ ret' = RetPromise(p)
         /\ fetches' = [fetches EXCEPT ![p].attached = TRUE]
         /\ emitted' = <<>>
         /\ cache' = cache
         /\ fetches[p].served.kind = "promise" => fetches[p].served = ret']_vars

\* a query has just attached to the fetch in flight for its key
C2_Witness ==
  /\ op.name = "query"
  /\ ret.kind = "promise"
  /\ emitted = <<>>
  /\ fetches[ret.pid].attached
  /\ fetches[ret.pid].key = op.key
  /\ fetches[ret.pid].calls = 1

\* C2 (as stated): the caller that started a fetch and every caller that
\* attached to it share one resolution, the same value or the same error.
C2_OneResolution ==
  (done.phase \in {"resolved", "rejected"} /\ done.attached) =>
    Resolution(done.served, done) = Resolution(RetPromise(done.pid), done)

\* C4: a query on an entry with staleAt <= now < expiry and no fetch in flight
\* returns the old data at once and starts exactly one fetch (one fetcher
\* invocation) in the background; a successful fetch writes its value and a
\* staleAt of now + staleTime; a query before that staleAt invokes no fetcher.
C4_StaleWhileRevalidate ==
  [][\A k \in Keys :
       /\ (/\ op' = Op("query", k)
           /\ cache[k].has /\ Unsettled(k) = {}
           /\ cache[k].staleAt # UndefT /\ cache[k].staleAt <= now
           /\ now < cache[k].expiry) =>
            /\ ret' = RetValue(cache[k].data)
            /\ \E p \in Pids :
                 /\ fetches[p].phase = "free"
                 /\ fetches'[p].phase = "fetching"
                 /\ fetches'[p].calls = 1
                 /\ fetches'[p].key = k
                 /\ \A q \in Pids \ {p} : fetches'[q] = fetches[q]
                 /\ cache' = [cache EXCEPT ![k].promise = p]
       /\ op' = Op("resolve", k) =>
            /\ cache'[k].data = done'.value
            /\ cache'[k].staleAt = now + done'.staleTime
            /\ cache'[k].promise = NullP
       /\ (op' = Op("query", k) /\ cache[k].has /\ now < cache[k].staleAt) =>
            fetches' = fetches]_vars

\* a background refresh of stale data has just succeeded with a new value
C4_Witness ==
  /\ done.phase = "resolved"
  /\ done.isStale
  /\ done.served.kind = "value"
  /\ done.served.val \in Values
  /\ done.value # done.served.val
  /\ cache[done.key].data = done.value

\* every fetch the store or the last step knows of
FetchRecords == {f \in {fetches[p] : p \in Pids} \cup {done} : f.phase # "free"}

\* C5: the back-offs of a fetch are retryDelay * 2^0, 2^1, ... in order, one
\* retry notification each, and no attempt starts before its back-off has
\* elapsed; a fetch that resolves after k <= retries failures has slept k
\* times and invoked the fetcher k + 1 times.
C5_RetryBackoff ==
  \A f \in FetchRecords :
    /\ f.delays = [i \in 1..Len(f.delays) |-> f.retryDelay * Pow2(i - 1)]
    /\ f.retryNotes = Len(f.delays)
    /\ (f.phase = "fetching" /\ f.attempt > 0) => now >= f.wakeAt
    /\ f.phase = "resolved" =>
         /\ f.fails <= f.retries
         /\ Len(f.delays) = f.fails
         /\ f.calls = f.fails + 1
         /\ Resolution(RetPromise(f.pid), f) = Settled("resolved", f.value, NullE)

\* a fetch with retries = 2 has just resolved after failing twice
C5_Witness ==
  /\ done.phase = "resolved"
  /\ done.retries = 2
  /\ done.fails = 2
  /\ done.calls = 3
  /\ Len(done.delays) = 2

\* C6: a fetch whose fetcher always rejects invokes it retries + 1 times,
\* sleeps retries times, never after the last attempt, and rejects with the
\* error of the last attempt.
C6_Exhausted ==
  /\ \A p \in Pids : fetches[p].phase = "sleeping" =>
                       fetches[p].attempt < fetches[p].retries
  /\ done.phase = "rejected" =>
       /\ op.name = "reject"
       /\ done.calls = done.retries + 1
       /\ done.fails = done.retries + 1
       /\ Len(done.delays) = done.retries
       /\ done.error = ErrorOf(done.retries + 1)
       /\ Resolution(RetPromise(done.pid), done) =
            Settled("rejected", Undef, ErrorOf(done.retries + 1))

\* a fetch with retries = 1 has just rejected after its second attempt
C6_Witness ==
  /\ done.phase = "rejected"
  /\ done.retries = 1
  /\ done.calls = 2
  /\ done.served.kind = "promise"

\* C7: when the background fetch of a query that returned stale data gives
\* up, what that query returned stays resolved with the stale data, the entry
\* keeps the stale data and records the error, and one error notification
\* carrying both is emitted.
C7_BackgroundFailure ==
  (done.phase = "rejected" /\ done.isStale) =>
    /\ Resolution(done.served, done) = Settled("resolved", done.snap.data, NullE)
    /\ cache[done.key].has
    /\ cache[done.key].data = done.snap.data
    /\ cache[done.key].error = done.error
    /\ done.error >= 1
    /\ cache[done.key].promise = NullP
    /\ emitted = <<ErrorEv(done.key, done.error, done.snap.data)>>

\* a background refresh with one retry has just given up
C7_Witness ==
  /\ done.phase = "rejected"
  /\ done.isStale
  /\ done.retries >= 1
  /\ done.snap.data \in Values
  /\ done.served = RetValue(done.snap.data)

\* C8: every entry that carries staleAt and expiry has staleAt <= expiry.
C8_StaleBeforeExpiry ==
  \A k \in Keys :
    (cache[k].has /\ cache[k].staleAt # UndefT /\ cache[k].expiry # UndefT) =>
      cache[k].staleAt <= cache[k].expiry

\* C9: an existing entry's data is the value written by the most recent
\* successful fetch, mutate or setQueryData for its key.
C9_LastWrite ==
  \A k \in Keys :
    (cache[k].has /\ lastWrite[k] # NoWrite) => cache[k].data = lastWrite[k]

\* C11: mutate on an existing entry sets its data to updater(previous) for a
\* function updater and to the updater otherwise, leaves staleAt, expiry,
\* error and the in-flight promise as they were, returns the previous data
\* and emits exactly one mutate notification carrying the new and the
\* previous data.
C11_MutateFrame ==
  [][\A k \in Keys :
       (op' = Op("mutate", k) /\ cache[k].has) =>
         LET previous == cache[k].data IN
         \E next \in Values :
           /\ next = IF updaterCalled'
                       THEN (IF previous = "v1" THEN "v2" ELSE "v1")
                       ELSE next
           /\ cache' = [cache EXCEPT ![k].data = next]
           /\ cache'[k].staleAt = cache[k].staleAt
           /\ cache'[k].expiry = cache[k].expiry
           /\ cache'[k].error = cache[k].error
           /\ cache'[k].promise = cache[k].promise
           /\ ret' = RetValue(previous)
           /\ emitted' = <<MutateEv(k, next, previous)>>
           /\ fetches' = fetches]_vars

\* a function updater has just replaced the stale data of an entry whose
\* refresh is in flight
C11_Witness ==
  /\ op.name = "mutate"
  /\ updaterCalled
  /\ ret.val \in Values
  /\ cache[op.key].promise >= 1
  /\ cache[op.key].data \in Values \ {ret.val}
  /\ cache[op.key].staleAt <= now

\* C12: setQueryData(key, d, options) leaves the entry as {data: d, staleAt:
\* now + staleTime, expiry: now + ttl, promise: null, error: null} and emits
\* one set notification, and a query for the key made within staleTime of
\* it, with no other client call for the key in between, returns d without
\* invoking the fetcher.
C12_SetThenQuery ==
  [][\A k \in Keys :
       /\ op' = Op("setQueryData", k) =>
            \E d \in Values, ttl \in Ttls, st \in StaleTimes :
              /\ cache' = [cache EXCEPT ![k] =
                             [has |-> TRUE, data |-> d, staleAt |-> now + st,
                              expiry |-> now + ttl, promise |-> NullP,
                              error |-> NullE]]
              /\ emitted' = <<SetEv(k, d)>>
              /\ lastCall'[k] = SetCall(d, now + st)
       /\ (op' = Op("query", k) /\ lastCall[k].name = "set"
              /\ now < lastCall[k].until) =>
            /\ ret' = RetValue(lastCall[k].data)
            /\ fetches' = fetches]_vars

\* C13: invalidate(key) leaves no entry for the key and emits one invalidate
\* notification; without refetch it starts no fetch; the next query for the
\* key behaves as for a never-fetched key: it invokes the fetcher and
\* returns the promise of that fetch.
C13_InvalidateThenQuery ==
  [][\A k \in Keys :
       /\ op' = Op("invalidate", k) =>
            /\ emitted'[1] = Ev("invalidate", k)
            /\ ret' = NoRet =>
                 /\ cache' = [cache EXCEPT ![k] = NoEntry]
                 /\ fetches' = fetches
                 /\ Len(emitted') = 1
       /\ (op' = Op("query", k) /\ lastCall[k] = RemovedCall("invalidate")) =>
            \E p \in Pids :
              /\ fetches[p].phase = "free"
              /\ fetches'[p].phase = "fetching"
              /\ fetches'[p].calls = 1
              /\ ret' = RetPromise(p)
              /\ emitted' = <<FetchEv(k, FALSE, FALSE)>>]_vars

\* the step starts exactly one fetch, for key k, with one fetcher invocation
StartsFetch(k) ==
  \E p \in Pids :
    /\ fetches[p].phase = "free"
    /\ fetches'[p].phase = "fetching"
    /\ fetches'[p].key = k
    /\ fetches'[p].calls = 1
    /\ \A q \in Pids \ {p} : fetches'[q] = fetches[q]

\* C15 (as amended): startPolling issues one query at once, which invokes the
\* fetcher unless the entry is fresh or holds an in-flight promise, and sets
\* one timer; the timer fires at start + I, start + 2I, ..., and each tick
\* invokes the fetcher when no fetch for the key is in flight, also on an
\* entry that was fresh; a timer exists only for a key that is being polled,
\* so after stopPolling no tick occurs.
C15_PollSchedule ==
  /\ [](\A t \in timers :
          /\ pollingIntervals[t.key] = t.id
          /\ now <= t.nextAt
          /\ t.nextAt > t.start
          /\ (t.nextAt - t.start) % t.interval = 0)
  /\ [][\A k \in Keys :
          /\ op' = Op("startPolling", k) =>
               /\ \E t \in timers' :
                    /\ t.key = k /\ t.start = now /\ t.nextAt = now + t.interval
                    /\ pollingIntervals'[k] = t.id
               /\ StartsFetch(k) <=> (~IsFresh(cache[k]) /\ ~HasPromise(cache[k]))
          /\ op' = Op("pollTick", k) =>
               /\ \E t \in TimersOf(k) :
                    /\ t.nextAt = now
                    /\ timers' = (timers \ {t}) \cup
                                   {[t EXCEPT !.nextAt = now + t.interval]}
               /\ Unsettled(k) = {} => StartsFetch(k)
          /\ op' = Op("stopPolling", k) =>
               /\ TimersOf(k)' = {}
               /\ fetches' = fetches]_vars

\* a tick has just started a fetch on an entry written in this very instant,
\* which was fresh
C15_Witness ==
  /\ op.name = "pollTick"
  /\ \E p \in Unsettled(op.key) :
       /\ fetches[p].calls = 1
       /\ ~fetches[p].attached
       /\ fetches[p].snap.data \in Values
       /\ fetches[p].snap.expiry = now + 2
       /\ emitted = <<FetchEv(op.key, TRUE, TRUE)>>
  /\ now > 0

\* C15 (as stated): startPolling invokes the fetcher at once whenever no
\* fetch for the key is in flight.
C15_FetchesAtStart ==
  [][\A k \in Keys :
       (op' = Op("startPolling", k) /\ Unsettled(k) = {}) => StartsFetch(k)]_vars

\* C16: with poll ticks, bindings and manual queries only, a key never has
\* two unsettled fetches; a tick or a manual query made while a fetch for
\* the key is in flight keeps the promise on the entry, attaches to it and
\* invokes no fetcher; bindQuery, with or without poll, starts at most one
\* fetch, and exactly one on a key without an entry.
C16_PollSingleFlight ==
  /\ [](\A k \in Keys :
          /\ Cardinality(Unsettled(k)) <= 1
          /\ Unsettled(k) # {} => cache[k].promise \in Unsettled(k))
  /\ [][\A k \in Keys :
          /\ (op' \in {Op("pollTick", k), Op("query", k)} /\ Unsettled(k) # {}) =>
               LET p == cache[k].promise IN
               /\ cache'[k].promise = p
               /\ fetches' = [fetches EXCEPT ![p].attached = TRUE]
               /\ emitted' = <<>>
               /\ op'.name = "query" => ret' = RetPromise(p)
          /\ op' = Op("bindQuery", k) =>
               /\ Cardinality({p \in Pids : /\ fetches[p].phase = "free"
                                            /\ fetches'[p].phase # "free"}) <= 1
               /\ ~cache[k].has => StartsFetch(k)]_vars

\* a tick has just fired while the fetch of an earlier tick or query was in
\* flight, and attached to it
C16_Witness ==
  /\ op.name = "pollTick"
  /\ emitted = <<>>
  /\ \E p \in Unsettled(op.key) :
       /\ fetches[p].attached
       /\ cache[op.key].promise = p
       /\ cache[op.key].staleAt = 0

\* C17: at most one interval timer is active per key, the one the poll table
\* names, also after startPolling on a key that is already polled;
\* stopPolling on a key that is not polled changes nothing and emits
\* nothing; after stopAllPolling no timer is active for any key.
C17_PollTable ==
  /\ [](\A k \in Keys :
          /\ Cardinality(TimersOf(k)) <= 1
          /\ pollingIntervals[k] = NoTimer <=> TimersOf(k) = {}
          /\ \A t \in TimersOf(k) : pollingIntervals[k] = t.id)
  /\ [](op.name = "stopAllPolling" =>
          /\ timers = {}
          /\ \A k \in Keys : pollingIntervals[k] = NoTimer)
  /\ [][\A k \in Keys :
          /\ (op' = Op("stopPolling", k) /\ pollingIntervals[k] = NoTimer) =>
               /\ emitted' = <<>>
               /\ UNCHANGED <<cache, order, fetches, timers, pollingIntervals,
                              persistTimeout, listeners, storage>>
          /\ (op' = Op("startPolling", k) /\ pollingIntervals[k] # NoTimer) =>
               /\ emitted'[1] = Ev("polling:stop", k)
               /\ \E t \in timers' : t.start = now /\ TimersOf(k)' = {t}]_vars

\* startPolling has just replaced the poll of a key while the other key is
\* polled too
C17_Witness ==
  /\ op.name = "startPolling"
  /\ emitted[1] = Ev("polling:stop", op.key)
  /\ Cardinality(timers) = 2
  /\ \A k \in Keys : Cardinality(TimersOf(k)) = 1

\* C14: invalidateMatching(predicate) deletes exactly the entries whose key
\* satisfies the predicate and leaves every other entry as it was, emits one
\* invalidate notification per deleted key, and returns the deleted keys in
\* the store's insertion order.
C14_InvalidateMatching ==
  [][op'.name = "invalidateMatching" =>
       LET pred == op'.arg
           deleted == SelectSeq(order, LAMBDA k : k \in pred)
       IN
       /\ \A k \in Keys :
            cache'[k] = IF cache[k].has /\ k \in pred THEN NoEntry ELSE cache[k]
       /\ ret' = RetKeys(deleted)
       /\ Len(emitted') = Len(deleted)
       /\ \A i \in 1..Len(deleted) : emitted'[i] = Ev("invalidate", deleted[i])
       /\ order' = SelectSeq(order, LAMBDA k : k \notin pred)
       /\ fetches' = fetches]_vars

\* invalidateMatching has just deleted both keys, "ab" inserted before "a"
C14_Witness ==
  /\ op.name = "invalidateMatching"
  /\ ret.keys = <<"ab", "a">>
  /\ emitted = <<Ev("invalidate", "ab"), Ev("invalidate", "a")>>
  /\ order = <<>>

\* C18: gc() deletes exactly the entries with now > expiry whose key has no
\* success listener and leaves every other entry as it was; it publishes one
\* gc notification listing the collected keys, and schedules a save, if and
\* only if it collected a key; an entry only disappears by a removal call or
\* gc, never by time passing.
C18_Gc ==
  [][/\ op' = Op("gc", "") =>
          LET gone == {k \in Keys : /\ cache[k].has
                                     /\ cache[k].expiry # UndefT
                                     /\ now > cache[k].expiry
                                     /\ listeners[k] = 0}
          IN
          /\ \A k \in Keys :
               cache'[k] = IF k \in gone THEN NoEntry ELSE cache[k]
          /\ gone # {} =>
               /\ Len(emitted') = 1
               /\ emitted'[1].ev = "gc"
               /\ Range(emitted'[1].keys) = gone
               /\ Len(emitted'[1].keys) = Cardinality(gone)
               /\ persistTimeout' = now + PersistDelay
          /\ gone = {} =>
               /\ emitted' = <<>>
               /\ persistTimeout' = persistTimeout
     /\ \A k \in Keys :
          (cache[k].has /\ ~cache'[k].has) =>
            op'.name \in {"gc", "invalidateMatching", "invalidate", "clear"}]_vars

\* gc has just collected one expired key and kept the other, which is
\* expired too but has a success listener
C18_Witness ==
  /\ op.name = "gc"
  /\ Len(emitted) = 1
  /\ Len(emitted[1].keys) = 1
  /\ \E k \in Keys :
       /\ cache[k].has
       /\ Gt(now, cache[k].expiry)
       /\ listeners[k] > 0

\* the keys whose entries the allow-list admits: every key without a list
AllowedKeys ==
  {k \in Keys : \/ ~persistedKeys.given
                 \/ \E pk \in persistedKeys.prefixes : StartsWith(k, pk)}

C21_DefaultPersistsNothing ==
  (~persistedKeys.given /\ storage.present) => Len(storage.entries) = 0

\* C22: loadFromStorage with no item or with text that is not JSON under
\* persistKey throws nothing, restores nothing and leaves the store as it
\* was, at construction and in the storage listener; a saveToStorage whose
\* storage write throws propagates nothing and leaves the store and the
\* stored item as they were.
C22_StorageFaults ==
  [][/\ (op'.name \in {"createQuery", "storage"}
          /\ (~storage.present \/ ~storage.wellFormed)) =>
          /\ ret' = NoRet
          /\ cache' = IF op'.name = "storage" THEN cache
                                              ELSE [k \in Keys |-> NoEntry]
          /\ order' = IF op'.name = "storage" THEN order ELSE <<>>
          /\ \A i \in 1..Len(emitted') : emitted'[i].ev = "sync"
     /\ op'.name = "saveToStorage:setItem throws" =>
          /\ ret' = NoRet
          /\ cache' = cache
          /\ order' = order
          /\ storage' = storage]_vars

\* the storage listener has run on text that is not JSON with one entry in
\* the store
C22_Witness ==
  /\ op.name = "storage"
  /\ storage = Garbage
  /\ cache["a"].has
  /\ ret = NoRet
  /\ emitted = <<SyncEv("a", "v1")>>

\* C30: when a fetch succeeds at time t, the entry of its key becomes {data:
\* the fetched value, staleAt: t + staleTime, expiry: t + ttl, promise: null,
\* error: null} with the staleTime and ttl of the query that started the
\* fetch, exactly one success notification carrying the value is emitted, and
\* a save is scheduled PersistDelay later.
C30_OnSuccess ==
  [][\A k \in Keys :
       op' = Op("resolve", k) =>
         /\ done'.phase = "resolved"
         /\ done'.key = k
         /\ cache'[k] = [has |-> TRUE, data |-> done'.value,
                         staleAt |-> now' + done'.staleTime,
                         expiry |-> now' + done'.ttl,
                         promise |-> NullP, error |-> NullE]
         /\ emitted' = <<SuccessEv(k, done'.value)>>
         /\ persistTimeout' = now' + PersistDelay]_vars

\* a fetch started while its entry was unexpired has succeeded at the time the
\* old entry expired: the new entry counts from the settlement
C30_Witness ==
  /\ op = Op("resolve", "a")
  /\ done.isStale
  /\ done.snap.expiry = now
  /\ now = 2
  /\ done.staleTime = 3
  /\ cache["a"].staleAt = 5
  /\ cache["a"].expiry = 4
  /\ cache["a"].data = done.value

\* C27: a pub throws nothing to its caller, and when the handlers registered
\* for the name only return or throw (none publishes the event again), it
\* invokes every one of them exactly once with the published data, whether
\* or not others throw.
C27_Isolation ==
  [][\A d \in Values :
       op' = OpArg("EVT.pub", "", {d}) =>
         /\ ret' = NoRet
         /\ (\A h \in Registered(evt.handlers) : h.cb # "republisher") =>
              \A h \in Registered(evt.handlers) :
                LET l == evt'.log
                    is == {i \in 1..Len(l) : l[i].pub = 1 /\ l[i].h = h}
                IN  /\ Cardinality(is) = 1
                    /\ \A i \in is : l[i].data = d]_vars

\* a pub whose first handler threw has gone on to invoke the second
C27_Witness ==
  /\ op.name = "EVT.pub"
  /\ evt.errors = 1
  /\ Len(evt.log) = 2
  /\ evt.log[1].h = Handler(FALSE, "thrower", 0)
  /\ evt.log[2].h = Handler(FALSE, "plain", 0)
  /\ ret = NoRet

\* C28: a handler registered with once is invoked at most once over all
\* publications, nested ones and invocations that throw included, and is no
\* longer registered after its first invocation.
C28_OnceAtMostOnce ==
  \A h \in OnceHandlers :
    /\ evt.count[h] <= 1
    /\ evt.count[h] = 1 => h \notin Registered(evt.handlers)

\* C29: no effect that depends on a signal written inside the function given
\* to batch runs before the function returns, and after it returns each such
\* effect runs exactly once and reads the values all the writes left.
C29_Batch ==
  [][op'.name = "batch" =>
       \A e \in {f \in Effects : \E s \in Signals :
                    rx'.val[s] # rx.val[s] /\ f \in Range(rx.subs[s])} :
         /\ rx'.runsInFn[e] = 0
         /\ rx'.runsOutside[e] = 1
         /\ \A i \in 1..Len(Reads(e)) :
              rx'.saw[e][Reads(e)[i]] = rx'.val[Reads(e)[i]]]_vars

\* C26: with a bindQuery on a key, every step calls render exactly once for
\* each success, set or mutate notification of the key, with that
\* notification's data and in order, and leaves the rendered string of the
\* last of them as the element's content; a step with no such notification
\* (only fetch, hit, error, invalidate, retry, or notifications of another
\* key) calls no render and leaves the content as it was.
C26_BindRenders ==
  [][ui'.bound =>
       LET rs == SelectSeq(emitted', LAMBDA ev :
                   ev.key = ui'.bkey /\ ev.ev \in {"success", "set", "mutate"})
       IN
       /\ ui'.renders = [i \in 1..Len(rs) |-> rs[i].data]
       /\ ui'.el = IF rs = <<>> THEN ui.el ELSE Render(rs[Len(rs)].data)]_vars

\* a fetch of the bound key has succeeded and its data is on the page
C26_Witness ==
  /\ ui.bound
  /\ op = Op("resolve", "a")
  /\ ui.renders = <<"v2">>
  /\ ui.el = Render("v2")
  /\ cache["a"].data = "v2"

\* C23: querySignal on a key with no entry invokes the fetcher exactly once
\* at construction and sets loading, and with enabled false invokes nothing
\* and leaves loading false; loading stays true while time passes and is
\* false once the fetch has settled; when the fetch resolves with v the data
\* cell equals v, whatever v is.
C23_SignalScenario ==
  [][\A k \in OneKey :
       /\ (op' = OpArg("querySignal", k, {"enabled"}) /\ ~cache[k].has) =>
            StartsFetch(k) /\ ui'.loading
       /\ (op' = OpArg("querySignal", k, {}) /\ ~cache[k].has) =>
            fetches' = fetches /\ ~ui'.loading
       /\ (op'.name = "tick" /\ ui.qs /\ ui.loading) => ui'.loading
       /\ (op'.name \in {"resolve", "reject"} /\ op'.key = k
             /\ ui.qs /\ ui.key = k /\ ui.handler) =>
            ~ui'.loading
       /\ (op' = Op("resolve", k) /\ ui.qs /\ ui.key = k /\ ui.handler) =>
            ui'.data = done'.value]_vars

\* C24: while a querySignal is subscribed, its loading cell is true exactly
\* when the entry of its key holds a fetch promise and no data.
C24_LoadingIff ==
  (ui.qs /\ ui.handler) =>
    (ui.loading <=>
       (/\ cache[ui.key].has
        /\ cache[ui.key].promise >= 1
        /\ cache[ui.key].data \in {Undef, Null}))

\* C25: once the function subscribe returned has been called, no listener
\* of that subscribe call is left on the bus, and no notification of the key
\* calls the callback or changes a cell.
C25_Unsubscribed ==
  [][ui.unsubscribed =>
       /\ ~ui.handler
       /\ ~ui.onInvalidate
       /\ op'.name \in {"setQueryData", "invalidate", "resolve", "reject"} =>
            /\ ui'.cbCalls = 0
            /\ ui'.data = ui.data
            /\ ui'.loading = ui.loading
            /\ ui'.error = ui.error]_vars

\* C31: when a fetch gives up after its last attempt, the entry becomes
\* {data: the data of the entry query had read, or null; staleAt and expiry:
\* those of that entry, or 0; promise: null; error: the error of the last
\* attempt}, exactly one error notification carrying that error and that
\* data is emitted, and the promise of the fetch rejects with that error.
C31_OnFailure ==
  [][done'.phase = "rejected" =>
       LET f == done'
           prev == f.snap
           err == ErrorOf(f.retries + 1)
       IN
       /\ cache'[f.key] =
            [has |-> TRUE,
             data |-> IF prev.has /\ prev.data # Undef THEN prev.data ELSE Null,
             staleAt |-> IF prev.has /\ prev.staleAt # UndefT THEN prev.staleAt ELSE 0,
             expiry |-> IF prev.has /\ prev.expiry # UndefT THEN prev.expiry ELSE 0,
             promise |-> NullP,
             error |-> err]
       /\ emitted' = <<ErrorEv(f.key, err, cache'[f.key].data)>>
       /\ Resolution(RetPromise(f.pid), f) = Settled("rejected", Undef, err)]_vars

\* a fetch started on an expired entry has given up after one retry: the
\* entry keeps the old data and times and holds the second error
C31_Witness ==
  /\ done.phase = "rejected"
  /\ done.retries = 1
  /\ done.snap.has
  /\ ~done.isStale
  /\ done.snap.data \in Values
  /\ cache[done.key].data = done.snap.data
  /\ cache[done.key].expiry = done.snap.expiry
  /\ cache[done.key].error = ErrorOf(2)

\* C32: a fetch notification opens a fetch that, once the fetcher settles
\* and the timers fire, ends with exactly one success or error notification
\* of its key; a retry notification belongs to a fetch that is open before and
\* after it, is emitted as the back-off it announces begins, and carries the
\* next attempt number, from 1 up to at most retries; success and error
\* notifications come only from the step that closes a fetch.
C32_Ordering ==
  /\ [][\A i \in 1..Len(emitted') :
          LET ev == emitted'[i] IN
          /\ ev.ev = "fetch" =>
               \E p \in Pids : /\ fetches[p].phase = "free"
                               /\ fetches'[p].phase = "fetching"
                               /\ fetches'[p].key = ev.key
                               /\ fetches'[p].retryNotes = 0
          /\ ev.ev = "retry" =>
               \E p \in Pids : /\ fetches[p].phase = "fetching"
                               /\ fetches[p].key = ev.key
                               /\ fetches'[p].phase = "sleeping"
                               /\ fetches'[p].wakeAt = now + ev.delay
                               /\ ev.attempt = fetches[p].retryNotes + 1
                               /\ ev.attempt <= fetches[p].retries
                               /\ ev.maxRetries = fetches[p].retries
          /\ ev.ev \in {"success", "error"} =>
               /\ Len(emitted') = 1
               /\ done'.key = ev.key
               /\ done'.phase = IF ev.ev = "success" THEN "resolved" ELSE "rejected"
               /\ InFlight(fetches[done'.pid])
               /\ fetches'[done'.pid].phase = "free"]_vars
  /\ \A p \in 1..MaxFetches :
       (p \in Pids /\ InFlight(fetches[p])) ~>
         (/\ done.pid = p
          /\ done.phase \in {"resolved", "rejected"}
          /\ Len(emitted) = 1
          /\ emitted[1].key = done.key
          /\ emitted[1].ev = IF done.phase = "resolved" THEN "success" ELSE "error")

\* a fetch with two retries has ended with its error notification after two
\* retry notifications
C32_Witness ==
  /\ done.phase = "rejected"
  /\ done.retries = 2
  /\ done.retryNotes = 2
  /\ emitted = <<ErrorEv(done.key, ErrorOf(3), OrNull(done.snap.data))>>

\* C38: a key whose entry invalidate, invalidateMatching or clear has
\* removed has no entry as long as no later query or setQueryData call for
\* the key has been made, whatever fetches settle in the meantime.
C38_RemovedStaysRemoved ==
  \A k \in Keys : lastCall[k].name = "removed" => ~cache[k].has

\* C39: gc() leaves in the store every entry that holds a fetch promise.
C39_GcSparesInFlight ==
  [][op'.name = "gc" =>
       \A k \in Keys : HasPromise(cache[k]) => cache'[k] = cache[k]]_vars

\* C40: an entry of a key with no unsettled fetch holds no promise.
C40_NoDeadPromise ==
  \A k \in Keys : Unsettled(k) = {} => ~HasPromise(cache[k])

\* a second fetch of the key, started after setQueryData had replaced the
\* entry of the first, has settled after the first: nothing is unsettled and
\* the entry holds no promise
C40_Witness ==
  /\ op = Op("resolve", "a")
  /\ done.pid = 2
  /\ Unsettled("a") = {}
  /\ cache["a"].has
  /\ cache["a"].promise = NullP
  /\ cache["a"].data = done.value

\* C37: after every step that notifies a subscribed querySignal of a
\* success, error, mutate or set of its key, the error cell equals the
\* error field of the key's entry: the last error, or null once a fetch has
\* succeeded or setQueryData has cleared it.
C37_ErrorMirrored ==
  [][(/\ ui.qs
      /\ ui.handler
      /\ ui'.handler
      /\ \E i \in 1..Len(emitted') :
           emitted'[i].key = ui.key /\ emitted'[i].ev \in HandlerTopics) =>
       /\ cache'[ui.key].has
       /\ ui'.error = IF cache'[ui.key].error = UndefE THEN NullE
                      ELSE cache'[ui.key].error]_vars

\* C34: a run of loadFromStorage that reads a blob installs, with promise
\* null, exactly the keys of the blob whose expiry is later than now, and
\* emits exactly one hydrated notification, which lists exactly those keys.
C34_Hydrated ==
  [][(op'.name \in {"createQuery", "storage"} /\ storage.present /\ storage.wellFormed) =>
       LET before == IF op'.name = "createQuery" THEN [k \in Keys |-> NoEntry] ELSE cache
           restored == {b \in Range(storage.entries) :
                          "expiry" \in b.fields /\ now < b.expiry}
           hydrated == SelectSeq(emitted', LAMBDA ev : ev.ev = "hydrated")
       IN
       /\ \A b \in restored :
            /\ cache'[b.key].has
            /\ cache'[b.key].data = b.data
            /\ cache'[b.key].expiry = b.expiry
            /\ cache'[b.key].promise = NullP
       /\ \A k \in Keys \ {b.key : b \in restored} : cache'[k] = before[k]
       /\ Len(hydrated) = 1
       /\ Len(hydrated[1].keys) = Cardinality(restored)
       /\ Range(hydrated[1].keys) = {b.key : b \in restored}]_vars

\* C35: a storage event on persistKey replaces the entry of every key of
\* the blob whose expiry is later than now by the blob's entry, leaves every
\* other entry as it is, and emits one sync notification for each key of
\* the store, in order, with the data the key then has; a storage event on
\* another key changes nothing and emits nothing.
C35_Sync ==
  [][/\ op'.name = "storage" =>
          LET blob == IF storage.present /\ storage.wellFormed
                      THEN Range(storage.entries) ELSE {}
              unexpired == {b \in blob : "expiry" \in b.fields /\ now < b.expiry}
              syncs == SelectSeq(emitted', LAMBDA ev : ev.ev = "sync")
          IN
          /\ \A b \in unexpired :
               cache'[b.key] =
                 [has |-> TRUE, data |-> b.data,
                  staleAt |-> IF "staleAt" \in b.fields THEN b.staleAt ELSE UndefT,
                  expiry |-> b.expiry, promise |-> NullP, error |-> UndefE]
          /\ \A k \in Keys \ {b.key : b \in unexpired} : cache'[k] = cache[k]
          /\ Len(syncs) = Cardinality({k \in Keys : cache'[k].has})
          /\ {syncs[i].key : i \in 1..Len(syncs)} = {k \in Keys : cache'[k].has}
          /\ \A i \in 1..Len(syncs) : syncs[i].data = cache'[syncs[i].key].data
          /\ storage' = storage
     /\ op'.name = "storage:other key" =>
          /\ emitted' = <<>>
          /\ UNCHANGED <<cache, order, storage, persistTimeout, fetches>>]_vars

\* a storage event has replaced the entry of "ab" by another client's entry
\* and left the entry of "a" alone, with a sync notification for each
C35_Witness ==
  /\ op.name = "storage"
  /\ cache["a"].has
  /\ cache["a"].data = "v1"
  /\ cache["a"].promise = NullP
  /\ cache["ab"].data = "v2"
  /\ cache["ab"].error = UndefE
  /\ Len(SelectSeq(emitted, LAMBDA ev : ev.ev = "sync")) = 2

\* C36: the hasCache flag of a fetch notification is true exactly when the
\* key has a cached data value when the fetch starts, and a bindQuery on the
\* key calls onLoading once for every fetch that starts with no cached value
\* and for no other.
C36_HasCache ==
  [][\A k \in Keys :
       LET cached == cache[k].has /\ cache[k].data \notin {Undef, Null}
           starts == SelectSeq(emitted', LAMBDA ev : ev.ev = "fetch" /\ ev.key = k)
       IN
       /\ \A i \in 1..Len(starts) : starts[i].hasCache <=> cached
       /\ (ui.bound /\ ui.bkey = k) =>
            ui'.loadings = IF cached THEN 0 ELSE Len(starts)]_vars

\* C33: the calls that schedule a save since the last storage write are
\* followed by exactly one write: while there are such calls one save is
\* pending, due PersistDelay after the last of them, and the clock does not
\* pass that time before the write; storage is written by that save alone,
\* with the entries the store holds at that moment, and no save is pending
\* after it.
C33_Debounce ==
  [][/\ op'.name = "saveToStorage" =>
          /\ burst.ops >= 1
          /\ now = burst.last + PersistDelay
          /\ storage'.present
          /\ Len(storage'.entries) = Cardinality({k \in Keys : cache[k].data # Undef})
          /\ \A i \in 1..Len(storage'.entries) :
               LET e == storage'.entries[i] IN
               /\ cache[e.key].has
               /\ e.data = cache[e.key].data
               /\ IF "staleAt" \in e.fields THEN e.staleAt = cache[e.key].staleAt
                  ELSE cache[e.key].staleAt = UndefT
               /\ IF "expiry" \in e.fields THEN e.expiry = cache[e.key].expiry
                  ELSE cache[e.key].expiry = UndefT
     /\ op'.name # "saveToStorage" => storage' = storage
     /\ burst'.ops >= 1 =>
          /\ persistTimeout' = burst'.last + PersistDelay
          /\ now' <= burst'.last + PersistDelay
     /\ burst'.ops = 0 => persistTimeout' = UndefT]_vars

\* one write has covered two scheduling calls and holds the entry they left
C33_Witness ==
  /\ op.name = "saveToStorage"
  /\ burst.flushed = 2
  /\ Len(storage.entries) = 1
  /\ storage.entries[1].data = cache["a"].data
  /\ persistTimeout = UndefT
====
